---- MODULE Spec2Model ----
(***************************************************************************)
(* A model of the zabava-server loyalty backend: the request handlers that *)
(* register a booking, confirm a visit, redeem a reward (issue a voucher), *)
(* apply a voucher to a booking and process it at the partner desk, over   *)
(* one shared key-value store.                                             *)
(*                                                                         *)
(* Every handler is an async function; each `await kv.*` is one atomic     *)
(* store access.  A handler is cut into steps at the store accesses that   *)
(* matter for interleaving: all consecutive reads form one step, every     *)
(* write (or run of writes to one key) is a step of its own.  Handlers of  *)
(* different requests share nothing but the store.                         *)
(*                                                                         *)
(* A Redis hash is a function from its present field names to values;      *)
(* `hset` merges fields, `hgetall` of a missing key is null (the key is    *)
(* not in the DOMAIN of the store function).  Times are whole days;        *)
(* 0 stands for the empty string where a time field holds "".              *)
(* JSON.stringify/JSON.parse of the booking payload are kept structural:   *)
(* the payload is the record of the fields the request body carried.       *)
(***************************************************************************)
EXTENDS Integers, Sequences, FiniteSets, TLC

VARIABLES
    qr,           \* qr:email:<email>      hash, keyed by email
    partnerSet,   \* partner:<partnerId>   set of emails
    partners,     \* partners              set of partner ids
    history,      \* points:history:<email> list, head = latest lpush
    redemption,   \* redemption:<code>     hash, keyed by code
    redemptions,  \* redemptions:<email>   list of redemption snapshots
    reward,       \* reward:<id>           hash, keyed by reward id
    now,          \* the wall clock (Date.now()), in days
    pc,           \* per handler slot: where its running request stands
    local,        \* per handler slot: the request's local variables
    result,       \* the response sent last
    webhooks,     \* the notifications posted to the configured webhook URLs
    lock          \* the accounts whose key qr:email:<email>:lock is set

vars == <<qr, partnerSet, partners, history, redemption, redemptions, reward,
          now, pc, local, result, webhooks, lock>>

storeVars == <<qr, partnerSet, partners, history, redemption, redemptions, reward>>

----------------------------------------------------------------------------
(* Bounds of the model *)

MaxNow == 3
MaxHistory == 3

(* Small universes the requests draw from *)

Procs == {"h1", "h2"}
Emails == {"a@x.com"}
Partners == {"osm001", "tx003"}
Rewards == {"r1", "r2"}
Codes == {"RDM-1", "RDM-2"}

\* Booking payloads (the `rest` of a register body, without the partner key).
Payloads ==
    { [totalPrice |-> 2000],
      [ticket |-> "vip", numPeople |-> 2],
      [estimatedPoints |-> 7, Transport |-> "Yes"] }

----------------------------------------------------------------------------
(* Hash helpers *)

EmptyHash == [f \in {} |-> 0]

Get(rec, f, d) == IF f \in DOMAIN rec THEN rec[f] ELSE d

\* kv.hset(key, fields): merge `fields` into the hash at `key`, creating it.
HSet(store, key, fields) ==
    LET old == IF key \in DOMAIN store THEN store[key] ELSE EmptyHash
    IN  (key :> (fields @@ old)) @@ store

\* A push that drops what the list held.
LPushReplacing(list, item) == <<item>>

\* kv.lpush(key, item): the new item becomes the head of the list.
LPush(list, item) == <<item>> \o list

\* The storage key of an account's booking record.
QrKey(email) == <<"qr:email", email>>

Idle == [op |-> "idle"]

----------------------------------------------------------------------------
(* Webhook notifications.  A handler calls fetch(url, ...) when the URL is
   configured and does not await the promise; the promise settles on its
   own, or never, and a rejection goes to console.error. *)

\* No webhook URL is configured.
NoWebhooks == [configured |-> {}, pending |-> {}, settled |-> {}]

\* A handler that awaits the fetch: the notification has settled when the
\* handler goes on.
FetchAwaited(webhook, type) ==
    IF type \in webhook.configured
    THEN [webhook EXCEPT !.settled = @ \cup {<<type, "delivered">>}]
    ELSE webhook

\* if (process.env.<..>_WEBHOOK_URL) fetch(...).catch(console.error)
Fetch(webhook, type) ==
    IF type \in webhook.configured
    THEN [webhook EXCEPT !.pending = @ \cup {type}]
    ELSE webhook

----------------------------------------------------------------------------
(* Points policy *)

\* A table that knows no ticket types.
BasePointsFlat(ticketType, numPeople) == 10 * numPeople

\* mark-visited.js: the points a confirmation credits for a stored payload.
BasePoints(ticketType, numPeople) ==
    CASE ticketType = "vip"    -> 50 * numPeople
      [] ticketType = "family" -> 30 * numPeople
      [] ticketType = "group"  -> 20 * numPeople
      [] OTHER                 -> 10 * numPeople

MarkVisitedPoints(payload) ==
    LET totalPrice == Get(payload, "totalPrice", 0)
        rawPeople  == Get(payload, "numPeople", 0)
        numPeople  == IF rawPeople = 0 THEN 1 ELSE rawPeople
        ticketType == Get(payload, "ticket", "standard")
        base == IF Get(payload, "estimatedPoints", 0) # 0
                    THEN payload.estimatedPoints
                ELSE IF totalPrice > 0
                    THEN totalPrice \div 100
                ELSE BasePoints(ticketType, numPeople)
        bonus == IF Get(payload, "Transport", "No") = "Yes"
                    \/ Get(payload, "Bus_Rental", FALSE)
                 THEN 5 ELSE 0
    IN  base + bonus

----------------------------------------------------------------------------
(* Reading the ledger *)

\* The Earned entries of an account's points history that reference a record.
EarnedEntries(email) ==
    SelectSeq(history[email],
              LAMBDA h : h.type = "earned" /\ h.visitId = QrKey(email))

RedemptionEntries(email) ==
    SelectSeq(history[email], LAMBDA h : h.type = "redemption")

----------------------------------------------------------------------------
(* registerHandler's record, as a state the store can be in *)

\* The hash register.js stores for a booking at `partnerId` made at `t`.
RegisteredRecord(email, partnerId, payload, t) ==
    [ email |-> email, used |-> "false",
      payload |-> ("partner_id" :> partnerId) @@ payload,
      createdAt |-> t, visited |-> "false", visitedAt |-> 0,
      partnerId |-> partnerId ]

----------------------------------------------------------------------------
(* POST /api/partner/mark-visited *)

MarkVisitedBegin(p, email, partnerId) ==
    /\ pc[p] = "idle"
    /\ IF email \notin DOMAIN qr
       THEN /\ result' =
                    [op |-> "markVisited", status |-> 404, error |-> "NotFound"]
            /\ UNCHANGED <<pc, local>>
       ELSE LET record == qr[email] IN
            IF Get(record, "partnerId", "") # partnerId
            THEN /\ result' =
                    [op |-> "markVisited", status |-> 400, error |-> "PartnerMismatch"]
                 /\ UNCHANGED <<pc, local>>
            ELSE IF Get(record, "visited", "") = "true"
            THEN /\ result' =
                    [op |-> "markVisited", status |-> 400, error |-> "AlreadyVisited"]
                 /\ UNCHANGED <<pc, local>>
            ELSE LET pointsEarned == MarkVisitedPoints(record.payload) IN
                 /\ pc' = [pc EXCEPT ![p] = "mv_write"]
                 /\ local' = [local EXCEPT ![p] =
                        [ op |-> "markVisited", email |-> email, partnerId |-> partnerId,
                          pointsEarned |-> pointsEarned, now |-> now,
                          updatedRecord |->
                              [ visited |-> "true", visitedAt |-> now,
                                pointsAwarded |-> pointsEarned,
                                lastUpdated |-> now ] @@ record ]]
                 /\ UNCHANGED result
    /\ UNCHANGED <<storeVars, now>>
    /\ UNCHANGED <<webhooks, lock>>

MarkVisitedWrite(p) ==
    /\ pc[p] = "mv_write"
    /\ qr' = HSet(qr, local[p].email, local[p].updatedRecord)
    /\ pc' = [pc EXCEPT ![p] = "mv_history"]
    /\ UNCHANGED <<partnerSet, partners, history, redemption, redemptions, reward,
                   now, local, result>>
    /\ UNCHANGED <<webhooks, lock>>

MarkVisitedHistory(p) ==
    /\ pc[p] = "mv_history"
    /\ Len(history[local[p].email]) < MaxHistory
    /\ history' = [history EXCEPT ![local[p].email] =
            LPush(@, [ type |-> "earned", points |-> local[p].pointsEarned,
                       partnerId |-> local[p].partnerId,
                       timestamp |-> local[p].now,
                       visitId |-> QrKey(local[p].email) ])]
    /\ pc' = [pc EXCEPT ![p] = "idle"]
    /\ result' =
            [ op |-> "markVisited", status |-> 200, error |-> "",
              visitedAt |-> local[p].now, pointsAwarded |-> local[p].pointsEarned ]
    /\ local' = [local EXCEPT ![p] = Idle]
    /\ UNCHANGED <<qr, partnerSet, partners, redemption, redemptions, reward, now>>
    /\ webhooks' = Fetch(webhooks, "visit_confirmed")
    /\ UNCHANGED lock

----------------------------------------------------------------------------
(* POST /api/partner/visit *)

PartnerVisitBegin(p, email, partnerId) ==
    /\ pc[p] = "idle"
    /\ IF email \notin DOMAIN qr
       THEN /\ result' =
                    [op |-> "partnerVisit", status |-> 404, error |-> "NotFound"]
            /\ UNCHANGED <<pc, local>>
       ELSE IF email \notin partnerSet[partnerId]
       THEN /\ result' =
                    [op |-> "partnerVisit", status |-> 403, error |-> "PartnerMismatch"]
            /\ UNCHANGED <<pc, local>>
       ELSE IF Get(qr[email], "visited", "") = "true"
       THEN /\ result' =
                    [ op |-> "partnerVisit", status |-> 200, error |-> "",
                      visitedAt |-> Get(qr[email], "visitedAt", 0) ]
            /\ UNCHANGED <<pc, local>>
       ELSE /\ pc' = [pc EXCEPT ![p] = "pv_write"]
            /\ local' = [local EXCEPT ![p] =
                    [ op |-> "partnerVisit", email |-> email, partnerId |-> partnerId,
                      visitedAt |-> now ]]
            /\ UNCHANGED result
    /\ UNCHANGED <<storeVars, now>>
    /\ UNCHANGED <<webhooks, lock>>

PartnerVisitWrite(p) ==
    /\ pc[p] = "pv_write"
    /\ qr' = HSet(qr, local[p].email,
                  [visited |-> "true", visitedAt |-> local[p].visitedAt])
    /\ pc' = [pc EXCEPT ![p] = "idle"]
    /\ result' =
            [ op |-> "partnerVisit", status |-> 200, error |-> "",
              visitedAt |-> local[p].visitedAt ]
    /\ local' = [local EXCEPT ![p] = Idle]
    /\ UNCHANGED <<partnerSet, partners, history, redemption, redemptions, reward, now>>
    /\ UNCHANGED <<webhooks, lock>>

----------------------------------------------------------------------------
(* POST /api/register *)

\* extractPartnerId(rest): the partner key the body carries, "" when none.
ExtractPartnerId(rest) == Get(rest, "partner_id", "")

\* A registration that does not test whose voucher the code is.
RegisterBeginAnyOwner(p, email, rest, redemptionCode) ==
    /\ pc[p] = "idle"
    /\ LET key == QrKey(email)
           record == [ email |-> email, used |-> "false", payload |-> rest,
                       createdAt |-> now, visited |-> "false", visitedAt |-> 0 ]
           base == [ op |-> "register", email |-> email, rest |-> rest,
                     redemptionCode |-> redemptionCode, createdAtIso |-> now,
                     record |-> record, applied |-> FALSE ]
           reject(error) ==
               /\ result' =
                       [ op |-> "register", status |-> 400, error |-> error,
                         code |-> redemptionCode ]
               /\ UNCHANGED <<pc, local>>
       IN  IF redemptionCode = ""
           THEN /\ pc' = [pc EXCEPT ![p] = "reg_attach"]
                /\ local' = [local EXCEPT ![p] = base]
                /\ UNCHANGED result
           ELSE IF redemptionCode \notin DOMAIN redemption
           THEN reject("InvalidCode")
           ELSE LET redemptionData == redemption[redemptionCode] IN
                IF FALSE
                THEN reject("DifferentUser")
                ELSE IF redemptionData.expiresAt > now /\ redemptionData.status = "pending"
                THEN /\ pc' = [pc EXCEPT ![p] = "reg_apply"]
                     /\ local' = [local EXCEPT ![p] =
                            [base EXCEPT !.applied = TRUE,
                                         !.record =
                                [ redemptionCode |-> redemptionCode,
                                  hasRedemption |-> "true",
                                  redemptionValue |-> redemptionData.pointsSpent ]
                                @@ record]]
                     /\ UNCHANGED result
                ELSE IF redemptionData.status = "used"
                THEN reject("AlreadyUsed")
                ELSE IF redemptionData.expiresAt <= now
                THEN reject("Expired")
                ELSE /\ pc' = [pc EXCEPT ![p] = "reg_attach"]
                     /\ local' = [local EXCEPT ![p] = base]
                     /\ UNCHANGED result
    /\ UNCHANGED <<storeVars, now>>
    /\ UNCHANGED <<webhooks, lock>>

RegisterBegin(p, email, rest, redemptionCode) ==
    /\ pc[p] = "idle"
    /\ LET key == QrKey(email)
           record == [ email |-> email, used |-> "false", payload |-> rest,
                       createdAt |-> now, visited |-> "false", visitedAt |-> 0 ]
           base == [ op |-> "register", email |-> email, rest |-> rest,
                     redemptionCode |-> redemptionCode, createdAtIso |-> now,
                     record |-> record, applied |-> FALSE ]
           reject(error) ==
               /\ result' =
                       [ op |-> "register", status |-> 400, error |-> error,
                         code |-> redemptionCode ]
               /\ UNCHANGED <<pc, local>>
       IN  IF redemptionCode = ""
           THEN /\ pc' = [pc EXCEPT ![p] = "reg_attach"]
                /\ local' = [local EXCEPT ![p] = base]
                /\ UNCHANGED result
           ELSE IF redemptionCode \notin DOMAIN redemption
           THEN reject("InvalidCode")
           ELSE LET redemptionData == redemption[redemptionCode] IN
                IF redemptionData.email # email
                THEN reject("DifferentUser")
                ELSE IF redemptionData.expiresAt > now /\ redemptionData.status = "pending"
                THEN /\ pc' = [pc EXCEPT ![p] = "reg_apply"]
                     /\ local' = [local EXCEPT ![p] =
                            [base EXCEPT !.applied = TRUE,
                                         !.record =
                                [ redemptionCode |-> redemptionCode,
                                  hasRedemption |-> "true",
                                  redemptionValue |-> redemptionData.pointsSpent ]
                                @@ record]]
                     /\ UNCHANGED result
                ELSE IF redemptionData.status = "used"
                THEN reject("AlreadyUsed")
                ELSE IF redemptionData.expiresAt <= now
                THEN reject("Expired")
                ELSE /\ pc' = [pc EXCEPT ![p] = "reg_attach"]
                     /\ local' = [local EXCEPT ![p] = base]
                     /\ UNCHANGED result
    /\ UNCHANGED <<storeVars, now>>
    /\ UNCHANGED <<webhooks, lock>>

\* The four hset calls that attach the voucher to the booking.
RegisterApply(p) ==
    /\ pc[p] = "reg_apply"
    /\ redemption' = HSet(redemption, local[p].redemptionCode,
            [ status |-> "applied",
              appliedToBooking |-> QrKey(local[p].email),
              appliedAt |-> local[p].createdAtIso,
              partnerId |-> Get(local[p].rest, "partner_id", "") ])
    /\ pc' = [pc EXCEPT ![p] = "reg_attach"]
    /\ UNCHANGED <<qr, partnerSet, partners, history, redemptions, reward,
                   now, local, result>>
    /\ UNCHANGED <<webhooks, lock>>

\* The second look at the redemption code, then the partner indices.
RegisterAttach(p) ==
    /\ pc[p] = "reg_attach"
    /\ LET code == local[p].redemptionCode
           email == local[p].email
           partnerKey == ExtractPartnerId(local[p].rest)
           again == /\ code # ""
                    /\ code \in DOMAIN redemption
                    /\ redemption[code].email = email
                    /\ redemption[code].expiresAt > now
                    /\ redemption[code].status = "pending"
           record1 == IF again
                      THEN [redemptionCode |-> code] @@ local[p].record
                      ELSE local[p].record
           record2 == IF partnerKey # ""
                      THEN [partnerId |-> partnerKey] @@ record1
                      ELSE record1
       IN  /\ redemption' = IF again
                THEN HSet(redemption, code,
                          [ status |-> "approved",
                            usedInBooking |-> QrKey(email),
                            usedAt |-> local[p].createdAtIso ])
                ELSE redemption
           /\ partnerSet' = IF partnerKey # ""
                THEN [partnerSet EXCEPT ![partnerKey] = @ \cup {email}]
                ELSE partnerSet
           /\ partners' = IF partnerKey # "" THEN partners \cup {partnerKey} ELSE partners
           /\ local' = [local EXCEPT ![p].record = record2]
    /\ pc' = [pc EXCEPT ![p] = "reg_store"]
    /\ UNCHANGED <<qr, history, redemptions, reward, now, result>>
    /\ UNCHANGED <<webhooks, lock>>

RegisterStore(p) ==
    /\ pc[p] = "reg_store"
    /\ qr' = HSet(qr, local[p].email, local[p].record)
    /\ pc' = [pc EXCEPT ![p] = "idle"]
    /\ result' =
            [ op |-> "register", status |-> 200, error |-> "",
              redemption |-> IF local[p].applied THEN local[p].redemptionCode ELSE "" ]
    /\ local' = [local EXCEPT ![p] = Idle]
    /\ UNCHANGED <<partnerSet, partners, history, redemption, redemptions, reward, now>>
    /\ UNCHANGED <<webhooks, lock>>

----------------------------------------------------------------------------
(* POST /api/bonus/redeem-reward: the balance the handler computes *)

VoucherLifetime == 30

KnownPartnerIds == <<"osm001", "tx003", "lz001", "lz002", "olo001">>

\* Every order in which smembers may return the members of a set.
Orders(S) ==
    { s \in [1..Cardinality(S) -> S] :
        \A i, j \in 1..Cardinality(S) : i # j => s[i] # s[j] }

RECURSIVE AppendMissing(_, _)
\* for (pid of items) if (!allPartners.includes(pid)) allPartners.push(pid)
AppendMissing(list, items) ==
    IF items = << >> THEN list
    ELSE LET pid == Head(items)
             seen == { list[i] : i \in DOMAIN list }
         IN  AppendMissing(IF pid \in seen THEN list ELSE Append(list, pid),
                           Tail(items))

\* (rec.partnerId || rec.partner_id || "") of the account's base record.
RecordPartner(email) ==
    IF email \in DOMAIN qr THEN Get(qr[email], "partnerId", "") ELSE ""

\* The partner list the handler iterates: the partners set in some order,
\* then the known ids and the partner discovered from the QR record.
AllPartnersLists(email) ==
    LET discovered == IF RecordPartner(email) # "" THEN <<RecordPartner(email)>>
                      ELSE << >>
    IN  { AppendMissing(order, KnownPartnerIds \o discovered) : order \in Orders(partners) }

PartnerEmails(partnerId) ==
    IF partnerId \in DOMAIN partnerSet THEN partnerSet[partnerId] ELSE {}

IsVisitedRecord(record) ==
    \/ Get(record, "visited", "") = "true"
    \/ Get(record, "status", "") \in {"Visited", "visited"}
    \/ Get(record, "visitedAt", 0) # 0
    \/ (Get(record, "used", "") = "true" /\ Get(record, "scannedAt", 0) # 0)

DerivePointsFromRecord(record, payload) ==
    IF Get(record, "pointsAwarded", 0) # 0 THEN record.pointsAwarded
    ELSE IF Get(payload, "estimatedPoints", 0) # 0 THEN payload.estimatedPoints
    ELSE IF Get(payload, "totalPrice", 0) # 0 THEN payload.totalPrice \div 100
    ELSE LET rawPeople == Get(payload, "numPeople", 0)
             numPeople == IF rawPeople = 0 THEN 1 ELSE rawPeople
         IN  BasePoints(Get(payload, "ticket", "standard"), numPeople)

RECURSIVE EarnedScan(_, _, _)
\* The loop over allPartners.  Of the three key spellings it checks per partner
\* only qr:email:<email> is ever written, so processedKeys is one flag for it.
EarnedScan(email, list, acc) ==
    IF list = << >> THEN acc
    ELSE LET pidLower == Head(list)
             isRegistered == email \in PartnerEmails(pidLower)
             tied == RecordPartner(email) # "" /\ RecordPartner(email) = pidLower
         IN  IF ~isRegistered /\ ~tied
             THEN EarnedScan(email, Tail(list), acc)
             ELSE LET acc1 == [acc EXCEPT !.visitedPartners = @ \cup {pidLower}]
                      counts == /\ ~acc.processed
                                /\ email \in DOMAIN qr
                                /\ RecordPartner(email) \in {"", pidLower}
                                /\ IsVisitedRecord(qr[email])
                      acc2 == [acc1 EXCEPT
                                 !.processed = TRUE,
                                 !.totalPointsEarned =
                                     IF counts
                                     THEN @ + DerivePointsFromRecord(
                                                qr[email], Get(qr[email], "payload", EmptyHash))
                                     ELSE @]
                  IN  EarnedScan(email, Tail(list), acc2)

\* What one run of the loop can compute, over the orders smembers may give.
EarnedReads(email) ==
    { EarnedScan(email, list,
                 [totalPointsEarned |-> 0, visitedPartners |-> {}, processed |-> FALSE])
        : list \in AllPartnersLists(email) }

RECURSIVE SumPoints(_)
SumPoints(entries) ==
    IF entries = << >> THEN 0 ELSE Head(entries).points + SumPoints(Tail(entries))

\* A redeemed total priced at the rewards' current cost.
TotalPointsRedeemedRepriced(email) ==
    SumPoints([ i \in 1..Len(RedemptionEntries(email)) |->
        [points |-> Get(Get(reward, RedemptionEntries(email)[i].rewardId, EmptyHash),
                        "pointsCost", 0)] ])

\* The redeemed total the handler sums from the points history.
TotalPointsRedeemed(email) ==
    SumPoints(SelectSeq(RedemptionEntries(email), LAMBDA h : h.points # 0))

Max(a, b) == IF a >= b THEN a ELSE b

\* A balance that forgets what was redeemed.
AvailablePointsEarnedOnly(totalPointsEarned, totalPointsRedeemed) ==
    totalPointsEarned

AvailablePoints(totalPointsEarned, totalPointsRedeemed) ==
    Max(0, totalPointsEarned - totalPointsRedeemed)

\* A funds check that refuses only an empty balance.
InsufficientPointsAnyFunds(availablePoints, pointsCost) == availablePoints <= 0

\* The funds check: the request is refused when this holds.
InsufficientPoints(availablePoints, pointsCost) == availablePoints < pointsCost

\* Codes another running request has generated but not stored yet.
CodesInFlight ==
    { local[q].redemptionCode :
        q \in { r \in Procs : pc[r] \in {"is_save"} } }

----------------------------------------------------------------------------
(* POST /api/bonus/redeem-reward: the handler *)

IssueBegin(p, email, rewardId) ==
    /\ pc[p] = "idle"
    /\ IF rewardId \notin DOMAIN reward
       THEN /\ result' =
                    [op |-> "issue", status |-> 404, error |-> "RewardNotFound"]
            /\ UNCHANGED <<pc, local>>
       ELSE IF reward[rewardId].status # "active"
       THEN /\ result' =
                    [op |-> "issue", status |-> 400, error |-> "RewardNotAvailable"]
            /\ UNCHANGED <<pc, local>>
       ELSE \E read \in EarnedReads(email) :
            /\ pc' = [pc EXCEPT ![p] = "is_check"]
            /\ local' = [local EXCEPT ![p] =
                    [ op |-> "issue", email |-> email, rewardId |-> rewardId,
                      reward |-> reward[rewardId],
                      pointsCost |-> reward[rewardId].pointsCost,
                      totalPointsEarned |-> read.totalPointsEarned,
                      visitedPartners |-> read.visitedPartners ]]
            /\ UNCHANGED result
    /\ UNCHANGED <<storeVars, now>>
    /\ UNCHANGED <<webhooks, lock>>

IssueCheck(p) ==
    /\ pc[p] = "is_check"
    /\ LET email == local[p].email
           pointsCost == local[p].pointsCost
           totalPointsRedeemed == TotalPointsRedeemed(email)
           availablePoints == AvailablePoints(local[p].totalPointsEarned,
                                              totalPointsRedeemed)
           availableFor == local[p].reward.availableFor
       IN  IF InsufficientPoints(availablePoints, pointsCost)
           THEN /\ result' =
                        [ op |-> "issue", status |-> 400, error |-> "InsufficientPoints",
                          required |-> pointsCost, available |-> availablePoints ]
                /\ pc' = [pc EXCEPT ![p] = "idle"]
                /\ local' = [local EXCEPT ![p] = Idle]
           ELSE IF availableFor # {} /\ availableFor \cap local[p].visitedPartners = {}
           THEN /\ result' =
                        [ op |-> "issue", status |-> 400, error |-> "NotEligible",
                          requiredPartners |-> availableFor,
                          yourPartners |-> local[p].visitedPartners ]
                /\ pc' = [pc EXCEPT ![p] = "idle"]
                /\ local' = [local EXCEPT ![p] = Idle]
           ELSE \E redemptionCode \in Codes \ (DOMAIN redemption \cup CodesInFlight) :
                /\ pc' = [pc EXCEPT ![p] = "is_save"]
                /\ local' = [local EXCEPT ![p] =
                        [ totalPointsRedeemed |-> totalPointsRedeemed,
                          availablePoints |-> availablePoints,
                          redemptionCode |-> redemptionCode,
                          redemption |->
                              [ id |-> redemptionCode, email |-> email,
                                rewardId |-> local[p].rewardId,
                                pointsSpent |-> pointsCost,
                                redeemedAt |-> now, status |-> "pending",
                                expiresAt |-> now + VoucherLifetime ] ]
                        @@ local[p]]
                /\ UNCHANGED result
    /\ UNCHANGED <<storeVars, now>>
    /\ UNCHANGED <<webhooks, lock>>

IssueSave(p) ==
    /\ pc[p] = "is_save"
    /\ redemptions' = [redemptions EXCEPT ![local[p].email] =
                            LPush(@, local[p].redemption)]
    /\ redemption' = HSet(redemption, local[p].redemptionCode, local[p].redemption)
    /\ pc' = [pc EXCEPT ![p] = "is_history"]
    /\ UNCHANGED <<qr, partnerSet, partners, history, reward, now, local, result>>
    /\ UNCHANGED <<webhooks, lock>>

IssueHistory(p) ==
    /\ pc[p] = "is_history"
    /\ Len(history[local[p].email]) < MaxHistory
    /\ history' = [history EXCEPT ![local[p].email] =
            LPush(@, [ type |-> "redemption", points |-> local[p].pointsCost,
                       rewardId |-> local[p].rewardId,
                       redemptionCode |-> local[p].redemptionCode,
                       timestamp |-> now ])]
    /\ pc' = [pc EXCEPT ![p] = "is_stock"]
    /\ UNCHANGED <<qr, partnerSet, partners, redemption, redemptions, reward,
                   now, local, result>>
    /\ UNCHANGED <<webhooks, lock>>

\* A stock update that decrements whatever it read.
IssueStockUnguarded(p) ==
    /\ pc[p] = "is_stock"
    /\ LET currentStock == Get(local[p].reward, "stock", 0) IN
       reward' = HSet(reward, local[p].rewardId, [stock |-> currentStock - 1])
    /\ pc' = [pc EXCEPT ![p] = "idle"]
    /\ result' =
            [ op |-> "issue", status |-> 200, error |-> "",
              code |-> local[p].redemptionCode,
              pointsSpent |-> local[p].pointsCost,
              remainingPoints |-> local[p].availablePoints - local[p].pointsCost,
              expiresAt |-> local[p].redemption.expiresAt ]
    /\ local' = [local EXCEPT ![p] = Idle]
    /\ UNCHANGED <<qr, partnerSet, partners, history, redemption, redemptions, now>>
    /\ webhooks' = Fetch(webhooks, "reward_redemption")
    /\ UNCHANGED lock

IssueStock(p) ==
    /\ pc[p] = "is_stock"
    /\ LET currentStock == Get(local[p].reward, "stock", 0) IN
       reward' = IF currentStock > 0
                 THEN HSet(reward, local[p].rewardId, [stock |-> currentStock - 1])
                 ELSE reward
    /\ pc' = [pc EXCEPT ![p] = "idle"]
    /\ result' =
            [ op |-> "issue", status |-> 200, error |-> "",
              code |-> local[p].redemptionCode,
              pointsSpent |-> local[p].pointsCost,
              remainingPoints |-> local[p].availablePoints - local[p].pointsCost,
              expiresAt |-> local[p].redemption.expiresAt ]
    /\ local' = [local EXCEPT ![p] = Idle]
    /\ UNCHANGED <<qr, partnerSet, partners, history, redemption, redemptions, now>>
    /\ webhooks' = Fetch(webhooks, "reward_redemption")
    /\ UNCHANGED lock

----------------------------------------------------------------------------
(* POST /api/partner/process-redemption *)

\* A desk that also takes vouchers never applied to a booking.
ProcessableStatusOrPending(status) == status \in {"applied", "pending"}

\* The only stored status the desk may process or reject.
ProcessableStatus(status) == status = "applied"

\* A desk that stores the status named in redeem-reward's comment.
ProcessedFieldsDelivered(action, partnerId, t) ==
    IF action = "process"
    THEN [status |-> "delivered", processedBy |-> partnerId, processedAt |-> t]
    ELSE [status |-> "rejected", rejectedBy |-> partnerId, rejectedAt |-> t]

\* The fields one hset writes for the desk's decision.
ProcessedFields(action, partnerId, t) ==
    IF action = "process"
    THEN [status |-> "used", processedBy |-> partnerId, processedAt |-> t]
    ELSE [status |-> "rejected", rejectedBy |-> partnerId, rejectedAt |-> t]

\* Responses carry `code` and `action` of the request they answer.
ProcessBegin(p, partnerId, code, action) ==
    /\ pc[p] = "idle"
    /\ IF code \notin DOMAIN redemption
       THEN /\ result' =
                    [ op |-> "process", status |-> 404, error |-> "NotFound",
                      code |-> code, action |-> action ]
            /\ UNCHANGED <<pc, local>>
       ELSE IF redemption[code].status = "used"
       THEN /\ result' =
                    [ op |-> "process", status |-> 400, error |-> "AlreadyProcessed",
                      code |-> code, action |-> action ]
            /\ UNCHANGED <<pc, local>>
       ELSE IF ~ProcessableStatus(redemption[code].status)
       THEN /\ result' =
                    [ op |-> "process", status |-> 400, error |-> "InvalidState",
                      code |-> code, action |-> action,
                      currentStatus |-> redemption[code].status ]
            /\ UNCHANGED <<pc, local>>
       ELSE /\ pc' = [pc EXCEPT ![p] = "pr_write"]
            /\ local' = [local EXCEPT ![p] =
                    [ op |-> "process", partnerId |-> partnerId, code |-> code,
                      action |-> action, status |-> redemption[code].status,
                      now |-> now ]]
            /\ UNCHANGED result
    /\ UNCHANGED <<storeVars, now>>
    /\ UNCHANGED <<webhooks, lock>>

ProcessWrite(p) ==
    /\ pc[p] = "pr_write"
    /\ redemption' = HSet(redemption, local[p].code,
            ProcessedFields(local[p].action, local[p].partnerId, local[p].now))
    /\ pc' = [pc EXCEPT ![p] = "idle"]
    /\ result' =
            [ op |-> "process", status |-> 200, error |-> "",
              code |-> local[p].code, action |-> local[p].action,
              newStatus |-> IF local[p].action = "process" THEN "used" ELSE "rejected",
              processedAt |-> local[p].now ]
    /\ local' = [local EXCEPT ![p] = Idle]
    /\ UNCHANGED <<qr, partnerSet, partners, history, redemptions, reward, now>>
    /\ webhooks' = IF local[p].action = "process"
                   THEN Fetch(webhooks, "redemption_processed")
                   ELSE webhooks
    /\ UNCHANGED lock

----------------------------------------------------------------------------
(* The clock *)

Tick ==
    /\ now < MaxNow
    /\ now' = now + 1
    /\ UNCHANGED <<storeVars, pc, local, result>>
    /\ UNCHANGED <<webhooks, lock>>

\* A voucher lifetime goes by at once.
PassLifetime ==
    /\ now <= MaxNow
    /\ now' = now + VoucherLifetime
    /\ UNCHANGED <<storeVars, pc, local, result>>
    /\ UNCHANGED <<webhooks, lock>>

----------------------------------------------------------------------------
(* Visit confirmation: confirmVisit calls on registered bookings *)

InitVisit ==
    /\ \E partnerId \in Partners, payload \in Payloads :
          /\ qr = [e \in Emails |-> RegisteredRecord(e, partnerId, payload, 1)]
          /\ partnerSet = [q \in Partners |-> IF q = partnerId THEN Emails ELSE {}]
          /\ partners = {partnerId}
    /\ history = [e \in Emails |-> << >>]
    /\ redemption = EmptyHash
    /\ redemptions = [e \in Emails |-> << >>]
    /\ reward = EmptyHash
    /\ now = 1
    /\ pc = [p \in Procs |-> "idle"]
    /\ local = [p \in Procs |-> Idle]
    /\ result = Idle
    /\ webhooks = NoWebhooks
    /\ lock = {}

NextVisit ==
    \/ \E p \in Procs, email \in Emails, partnerId \in Partners :
          MarkVisitedBegin(p, email, partnerId)
    \/ \E p \in Procs : MarkVisitedWrite(p)
    \/ \E p \in Procs : MarkVisitedHistory(p)
    \/ \E p \in Procs, email \in Emails, partnerId \in Partners :
          PartnerVisitBegin(p, email, partnerId)
    \/ \E p \in Procs : PartnerVisitWrite(p)
    \/ Tick

SpecVisit == InitVisit /\ [][NextVisit]_vars

\* The same calls, one after the other: a single handler slot runs them.
SeqProcs == {"h1"}

NextVisitSeq ==
    \/ \E p \in SeqProcs, email \in Emails, partnerId \in Partners :
          MarkVisitedBegin(p, email, partnerId)
    \/ \E p \in SeqProcs : MarkVisitedWrite(p)
    \/ \E p \in SeqProcs : MarkVisitedHistory(p)
    \/ \E p \in SeqProcs, email \in Emails, partnerId \in Partners :
          PartnerVisitBegin(p, email, partnerId)
    \/ \E p \in SeqProcs : PartnerVisitWrite(p)
    \/ Tick

SpecVisitSeq == InitVisit /\ [][NextVisitSeq]_vars

----------------------------------------------------------------------------
(* Redemption: issueVoucher calls on accounts with a confirmed visit *)

\* The record mark-visited.js leaves for a booking registered at t0 and
\* confirmed at t1.
VisitedRecord(email, partnerId, payload, t0, t1) ==
    LET record == RegisteredRecord(email, partnerId, payload, t0) IN
    [ visited |-> "true", visitedAt |-> t1,
      pointsAwarded |-> MarkVisitedPoints(record.payload),
      lastUpdated |-> t1 ] @@ record

EarnedEntry(email, partnerId, payload, t) ==
    [ type |-> "earned",
      points |-> MarkVisitedPoints(RegisteredRecord(email, partnerId, payload, t).payload),
      partnerId |-> partnerId, timestamp |-> t, visitId |-> QrKey(email) ]

\* Two rewards as handleCreateReward stores them (stock 0: no stock given).
Catalog ==
    ("r1" :> [ pointsCost |-> 15, availableFor |-> {"osm001"}, stock |-> 2,
               status |-> "active" ]) @@
    ("r2" :> [ pointsCost |-> 10, availableFor |-> {}, stock |-> 0,
               status |-> "active" ])

InitIssue ==
    /\ \E partnerId \in Partners, payload \in Payloads :
          /\ qr = [e \in Emails |-> VisitedRecord(e, partnerId, payload, 1, 1)]
          /\ partnerSet = [q \in Partners |-> IF q = partnerId THEN Emails ELSE {}]
          /\ partners = {partnerId}
          /\ history = [e \in Emails |-> <<EarnedEntry(e, partnerId, payload, 1)>>]
    /\ redemption = EmptyHash
    /\ redemptions = [e \in Emails |-> << >>]
    /\ reward = Catalog
    /\ now = 1
    /\ pc = [p \in Procs |-> "idle"]
    /\ local = [p \in Procs |-> Idle]
    /\ result = Idle
    /\ webhooks = NoWebhooks
    /\ lock = {}

NextIssue ==
    \/ \E p \in Procs, email \in Emails, rewardId \in Rewards :
          IssueBegin(p, email, rewardId)
    \/ \E p \in Procs : IssueCheck(p)
    \/ \E p \in Procs : IssueSave(p)
    \/ \E p \in Procs : IssueHistory(p)
    \/ \E p \in Procs : IssueStock(p)

SpecIssue == InitIssue /\ [][NextIssue]_vars

\* Issue calls one after the other (slot h1), while the other slot registers
\* bookings and confirms visits for the same account.
OtherProcs == Procs \ SeqProcs

Bookings ==
    { ("partner_id" :> "tx003") @@ [ticket |-> "vip", numPeople |-> 2] }

NextIssueSeq ==
    \/ \E p \in SeqProcs, email \in Emails, rewardId \in Rewards :
          IssueBegin(p, email, rewardId)
    \/ \E p \in SeqProcs : IssueCheck(p)
    \/ \E p \in SeqProcs : IssueSave(p)
    \/ \E p \in SeqProcs : IssueHistory(p)
    \/ \E p \in SeqProcs : IssueStock(p)
    \/ \E p \in OtherProcs, email \in Emails, rest \in Bookings :
          RegisterBegin(p, email, rest, "")
    \/ \E p \in OtherProcs : RegisterAttach(p)
    \/ \E p \in OtherProcs : RegisterStore(p)
    \/ \E p \in OtherProcs, email \in Emails, partnerId \in Partners :
          MarkVisitedBegin(p, email, partnerId)
    \/ \E p \in OtherProcs : MarkVisitedWrite(p)
    \/ \E p \in OtherProcs : MarkVisitedHistory(p)

SpecIssueSeq == InitIssue /\ [][NextIssueSeq]_vars

----------------------------------------------------------------------------
(* Voucher lifecycle: apply (register with a code) and process calls on an
   issued voucher *)

IssuedVoucher(code, email, rewardId, t) ==
    [ id |-> code, email |-> email, rewardId |-> rewardId,
      pointsSpent |-> Catalog[rewardId].pointsCost, redeemedAt |-> t,
      status |-> "pending", expiresAt |-> t + VoucherLifetime ]

RedemptionEntry(code, rewardId, t) ==
    [ type |-> "redemption", points |-> Catalog[rewardId].pointsCost,
      rewardId |-> rewardId, redemptionCode |-> code, timestamp |-> t ]

\* The store after the account's visit at osm001 for 2000 was confirmed and
\* reward r1 redeemed, all on day 1.
InitVoucher ==
    /\ qr = [e \in Emails |-> VisitedRecord(e, "osm001", [totalPrice |-> 2000], 1, 1)]
    /\ partnerSet = [q \in Partners |-> IF q = "osm001" THEN Emails ELSE {}]
    /\ partners = {"osm001"}
    /\ history = [e \in Emails |->
            << RedemptionEntry("RDM-1", "r1", 1),
               EarnedEntry(e, "osm001", [totalPrice |-> 2000], 1) >>]
    /\ redemption = ("RDM-1" :> IssuedVoucher("RDM-1", "a@x.com", "r1", 1))
    /\ redemptions = [e \in Emails |-> <<IssuedVoucher("RDM-1", "a@x.com", "r1", 1)>>]
    /\ reward = HSet(Catalog, "r1", [stock |-> 1])
    /\ now = 1
    /\ pc = [p \in Procs |-> "idle"]
    /\ local = [p \in Procs |-> Idle]
    /\ result = Idle
    /\ webhooks = NoWebhooks
    /\ lock = {}

VoucherBookings ==
    { ("partner_id" :> partnerId) @@ [totalPrice |-> 2000] : partnerId \in Partners }

\* Another account: it books with the codes it got hold of.
Guests == {"b@x.com"}

\* Concurrent apply and process calls, within one day.
NextVoucher ==
    \/ \E p \in Procs, email \in Emails \cup Guests, rest \in VoucherBookings,
          code \in Codes : RegisterBegin(p, email, rest, code)
    \/ \E p \in Procs : RegisterApply(p)
    \/ \E p \in Procs : RegisterAttach(p)
    \/ \E p \in Procs : RegisterStore(p)
    \/ \E p \in Procs, partnerId \in Partners, code \in Codes,
          action \in {"process", "reject"} : ProcessBegin(p, partnerId, code, action)
    \/ \E p \in Procs : ProcessWrite(p)

SpecVoucher == InitVoucher /\ [][NextVoucher]_vars

\* The same calls one after the other, over the voucher's lifetime and past it.
NextVoucherSeq ==
    \/ \E p \in SeqProcs, email \in Emails \cup Guests, rest \in VoucherBookings,
          code \in Codes : RegisterBegin(p, email, rest, code)
    \/ \E p \in SeqProcs : RegisterApply(p)
    \/ \E p \in SeqProcs : RegisterAttach(p)
    \/ \E p \in SeqProcs : RegisterStore(p)
    \/ \E p \in SeqProcs, partnerId \in Partners, code \in Codes,
          action \in {"process", "reject"} : ProcessBegin(p, partnerId, code, action)
    \/ \E p \in SeqProcs : ProcessWrite(p)
    \/ Tick
    \/ PassLifetime

SpecVoucherSeq == InitVoucher /\ [][NextVoucherSeq]_vars

----------------------------------------------------------------------------
(* GET /api/bonus/user-points: the balance handlers.  The repository holds
   four of them; each is a read-only request, taken here as one step. *)

RECURSIVE SumPointsSpent(_)
\* totalPointsRedeemed += parseInt(redemption.pointsSpent) || 0
SumPointsSpent(list) ==
    IF list = << >> THEN 0
    ELSE Get(Head(list), "pointsSpent", 0) + SumPointsSpent(Tail(list))

RecordPayload(email) == Get(qr[email], "payload", EmptyHash)

\* user-points.js, first handler: a partner of the partners set counts when the
\* account is in its set and the base record carries its id; the points are the
\* payload's estimatedPoints, the redeemed total the history's redemptions.
UserPointsFirst(email) ==
    LET matching == { partnerId \in partners :
                        /\ email \in PartnerEmails(partnerId)
                        /\ email \in DOMAIN qr
                        /\ Get(qr[email], "partnerId", "") = partnerId }
        points == IF email \in DOMAIN qr
                  THEN Get(RecordPayload(email), "estimatedPoints", 0) ELSE 0
        totalPoints == IF email \in DOMAIN qr /\ Get(qr[email], "visited", "") = "true"
                       THEN Cardinality(matching) * points ELSE 0
        totalRedeemed == SumPoints(RedemptionEntries(email))
    IN  { [ op |-> "getBalance", handler |-> "user-points/1", status |-> 200,
            earned |-> totalPoints, redeemed |-> totalRedeemed,
            available |-> totalPoints - totalRedeemed ] }

TransportBonus(payload) ==
    IF Get(payload, "Transport", "No") = "Yes" \/ Get(payload, "Bus_Rental", FALSE)
    THEN 5 ELSE 0

\* user-points.js, second handler: the points of one record; the transport
\* bonus is added whichever branch gave the points.
PointsForThisVisit(record, payload) ==
    DerivePointsFromRecord(record, payload) + TransportBonus(payload)

RECURSIVE VisitScan(_, _, _)
\* user-points.js, second handler: the loop over allPartners.  Only the key
\* qr:email:<email> is ever written, so processedRecords is one flag for it.
VisitScan(email, list, acc) ==
    IF list = << >> THEN acc
    ELSE LET normalizedPartnerId == Head(list)
             isRegistered == email \in PartnerEmails(normalizedPartnerId)
             tested == /\ email \in DOMAIN qr
                       /\ RecordPartner(email) = normalizedPartnerId
         IN  IF (~isRegistered /\ ~tested) \/ acc.processed \/ email \notin DOMAIN qr
             THEN VisitScan(email, Tail(list), acc)
             ELSE IF RecordPartner(email) \notin {"", normalizedPartnerId}
             THEN VisitScan(email, Tail(list), [acc EXCEPT !.processed = TRUE])
             ELSE LET record == qr[email]
                      isVisited == IsVisitedRecord(record)
                      pointsForThisVisit ==
                          PointsForThisVisit(record, RecordPayload(email))
                  IN  VisitScan(email, Tail(list),
                        [ processed |-> TRUE,
                          allVisits |-> acc.allVisits \cup
                              { [ partnerId |-> normalizedPartnerId,
                                  status |-> IF isVisited THEN "visited"
                                             ELSE "pending" ] },
                          totalPointsEarned |-> acc.totalPointsEarned +
                              (IF isVisited THEN pointsForThisVisit ELSE 0) ])

RECURSIVE ReconcileEarned(_, _, _)
\* user-points.js, second handler: an earned history entry whose partner has no
\* visited entry in allVisits is added to the earned total.
ReconcileEarned(entries, allVisits, totalPointsEarned) ==
    IF entries = << >> THEN totalPointsEarned
    ELSE LET entry == Head(entries)
             visitMatch == \E v \in allVisits :
                              /\ v.partnerId = Get(entry, "partnerId", "")
                              /\ v.status = "visited"
             counted == /\ entry.type = "earned" /\ Get(entry, "points", 0) # 0
                        /\ ~visitMatch
         IN  ReconcileEarned(Tail(entries), allVisits,
                             totalPointsEarned + (IF counted THEN entry.points ELSE 0))

UserPointsSecond(email) ==
    { LET scan == VisitScan(email, list,
                      [processed |-> FALSE, allVisits |-> {}, totalPointsEarned |-> 0])
          totalPointsRedeemed == SumPointsSpent(redemptions[email])
          totalPointsEarned == ReconcileEarned(history[email], scan.allVisits,
                                               scan.totalPointsEarned)
      IN  [ op |-> "getBalance", handler |-> "user-points/2", status |-> 200,
            earned |-> totalPointsEarned, redeemed |-> totalPointsRedeemed,
            available |-> Max(0, totalPointsEarned - totalPointsRedeemed) ]
      : list \in AllPartnersLists(email) }

\* user-points.js, third handler: the base record alone; redemptions are not
\* read.
UserPointsThird(email) ==
    LET points == IF email \in DOMAIN qr /\ Get(qr[email], "visited", "") = "true"
                  THEN Get(RecordPayload(email), "estimatedPoints", 0) ELSE 0
    IN  { [ op |-> "getBalance", handler |-> "user-points/3", status |-> 200,
            earned |-> points, redeemed |-> 0, available |-> points ] }

\* user-points-v2.js: calculatePoints(payload)
CalculatePoints(payload) ==
    LET rawPeople  == Get(payload, "numPeople", 0)
        numPeople  == IF rawPeople = 0 THEN 1 ELSE rawPeople
        totalPrice == Get(payload, "totalPrice", 0)
        points == IF totalPrice > 0 THEN totalPrice \div 100
                  ELSE BasePoints(Get(payload, "ticket", "standard"), numPeople)
    IN  points + TransportBonus(payload)

\* user-points-v2.js: the partners of the partners set whose set holds the
\* account and whose id the base record carries (or that carries none) count.
UserPointsV2(email) ==
    LET matching == { partnerId \in partners :
                        /\ email \in PartnerEmails(partnerId)
                        /\ email \in DOMAIN qr
                        /\ RecordPartner(email) \in {partnerId, ""} }
        record == qr[email]
        payload == RecordPayload(email)
        isVisited == \/ Get(record, "visited", "") = "true"
                     \/ Get(record, "visitedAt", 0) # 0
                     \/ Get(record, "status", "") = "Visited"
        actualPoints == IF Get(record, "pointsAwarded", 0) # 0 THEN record.pointsAwarded
                        ELSE IF Get(payload, "estimatedPoints", 0) # 0
                             THEN payload.estimatedPoints
                        ELSE CalculatePoints(payload)
        totalPointsEarned == IF matching # {} /\ isVisited
                             THEN Cardinality(matching) * actualPoints ELSE 0
        totalPointsRedeemed == SumPointsSpent(redemptions[email])
    IN  { [ op |-> "getBalance", handler |-> "user-points-v2", status |-> 200,
            earned |-> totalPointsEarned, redeemed |-> totalPointsRedeemed,
            available |-> totalPointsEarned - totalPointsRedeemed ] }

\* A balance request that stores the balance it computed in the record.
GetBalanceCaching(p, email) ==
    /\ pc[p] = "idle"
    /\ \E response \in UserPointsV2(email) :
          /\ result' = response
          /\ qr' = HSet(qr, email, [availablePoints |-> response.available])
    /\ UNCHANGED <<partnerSet, partners, history, redemption, redemptions, reward,
                   now, pc, local>>
    /\ UNCHANGED <<webhooks, lock>>

\* One balance request, answered by any of the handlers.
GetBalance(p, email) ==
    /\ pc[p] = "idle"
    /\ \E response \in UserPointsFirst(email) \cup UserPointsSecond(email)
                          \cup UserPointsThird(email) \cup UserPointsV2(email) :
          result' = response
    /\ UNCHANGED <<storeVars, now, pc, local>>
    /\ UNCHANGED <<webhooks, lock>>

----------------------------------------------------------------------------
(* An account's life: bookings, confirmations, redemptions and balance
   requests, one call after the other *)

\* Every payload booked at osm001, and one booking at tx003.
AccountBookings ==
    { ("partner_id" :> "osm001") @@ payload : payload \in Payloads }
        \cup { ("partner_id" :> "tx003") @@ [totalPrice |-> 2000] }

InitAccount ==
    /\ qr = EmptyHash
    /\ partnerSet = [q \in Partners |-> {}]
    /\ partners = {}
    /\ history = [e \in Emails |-> << >>]
    /\ redemption = EmptyHash
    /\ redemptions = [e \in Emails |-> << >>]
    /\ reward = Catalog
    /\ now = 1
    /\ pc = [p \in Procs |-> "idle"]
    /\ local = [p \in Procs |-> Idle]
    /\ result = Idle
    /\ webhooks = NoWebhooks
    /\ lock = {}

\* Bookings, confirmations and balance requests.
NextAccount ==
    \/ \E p \in SeqProcs, email \in Emails, rest \in AccountBookings :
          RegisterBegin(p, email, rest, "")
    \/ \E p \in SeqProcs : RegisterAttach(p)
    \/ \E p \in SeqProcs : RegisterStore(p)
    \/ \E p \in SeqProcs, email \in Emails, partnerId \in Partners :
          MarkVisitedBegin(p, email, partnerId)
    \/ \E p \in SeqProcs : MarkVisitedWrite(p)
    \/ \E p \in SeqProcs : MarkVisitedHistory(p)
    \/ \E p \in SeqProcs, email \in Emails, partnerId \in Partners :
          PartnerVisitBegin(p, email, partnerId)
    \/ \E p \in SeqProcs : PartnerVisitWrite(p)
    \/ \E p \in SeqProcs, email \in Emails : GetBalance(p, email)

SpecAccount == InitAccount /\ [][NextAccount]_vars

\* Bookings, confirmations and redemptions.
NextAccountIssue ==
    \/ \E p \in SeqProcs, email \in Emails, rest \in AccountBookings :
          RegisterBegin(p, email, rest, "")
    \/ \E p \in SeqProcs : RegisterAttach(p)
    \/ \E p \in SeqProcs : RegisterStore(p)
    \/ \E p \in SeqProcs, email \in Emails, partnerId \in Partners :
          MarkVisitedBegin(p, email, partnerId)
    \/ \E p \in SeqProcs : MarkVisitedWrite(p)
    \/ \E p \in SeqProcs : MarkVisitedHistory(p)
    \/ \E p \in SeqProcs, email \in Emails, rewardId \in Rewards :
          IssueBegin(p, email, rewardId)
    \/ \E p \in SeqProcs : IssueCheck(p)
    \/ \E p \in SeqProcs : IssueSave(p)
    \/ \E p \in SeqProcs : IssueHistory(p)
    \/ \E p \in SeqProcs : IssueStock(p)

SpecAccountIssue == InitAccount /\ [][NextAccountIssue]_vars

\* Redemptions and balance requests on an account with a confirmed visit.
NextBalance ==
    \/ \E p \in SeqProcs, email \in Emails, rewardId \in Rewards :
          IssueBegin(p, email, rewardId)
    \/ \E p \in SeqProcs : IssueCheck(p)
    \/ \E p \in SeqProcs : IssueSave(p)
    \/ \E p \in SeqProcs : IssueHistory(p)
    \/ \E p \in SeqProcs : IssueStock(p)
    \/ \E p \in SeqProcs, email \in Emails : GetBalance(p, email)

SpecBalance == InitIssue /\ [][NextBalance]_vars

----------------------------------------------------------------------------
(* A request that dies between two store accesses: the function instance is
   killed or times out, its local state is lost, no response is sent, and
   the writes it has made stay in the store. *)

Crash(p) ==
    /\ pc[p] # "idle"
    /\ pc' = [pc EXCEPT ![p] = "idle"]
    /\ local' = [local EXCEPT ![p] = Idle]
    /\ UNCHANGED <<storeVars, now, result>>
    /\ UNCHANGED <<webhooks, lock>>

\* Visit confirmations, retried after crashes, one call after the other.
NextVisitCrash ==
    \/ \E p \in SeqProcs, email \in Emails, partnerId \in Partners :
          MarkVisitedBegin(p, email, partnerId)
    \/ \E p \in SeqProcs : MarkVisitedWrite(p)
    \/ \E p \in SeqProcs : MarkVisitedHistory(p)
    \/ \E p \in SeqProcs : Crash(p)
    \/ Tick

SpecVisitCrash == InitVisit /\ [][NextVisitCrash]_vars

\* Redemptions over several days, retried after crashes, one call after the
\* other.
NextIssueCrash ==
    \/ \E p \in SeqProcs, email \in Emails, rewardId \in Rewards :
          IssueBegin(p, email, rewardId)
    \/ \E p \in SeqProcs : IssueCheck(p)
    \/ \E p \in SeqProcs : IssueSave(p)
    \/ \E p \in SeqProcs : IssueHistory(p)
    \/ \E p \in SeqProcs : IssueStock(p)
    \/ \E p \in SeqProcs : Crash(p)
    \/ Tick

SpecIssueCrash == InitIssue /\ [][NextIssueCrash]_vars

----------------------------------------------------------------------------
(* The points computation on raw payloads.  A payload field is what
   JSON.parse gives: absent, a number or a string.  Values are tagged, and
   a computed number is a tagged number or NaN. *)

Undef == [undef |-> TRUE]
NaN == [nan |-> TRUE]
Num(n) == [num |-> n]
Str(s) == [str |-> s]

RawGet(payload, f) == IF f \in DOMAIN payload THEN payload[f] ELSE Undef

\* The strings of the model that parseInt and parseFloat read as a number.
NumericStrings == ("7" :> 7) @@ ("0" :> 0) @@ ("2000" :> 2000)

\* parseInt(v), parseFloat(v): a number stays, a numeric string is read, all
\* else (undefined, "abc") is NaN.  The model's numbers are whole.
ParseInt(v) ==
    IF "num" \in DOMAIN v THEN v
    ELSE IF "str" \in DOMAIN v /\ v.str \in DOMAIN NumericStrings
         THEN Num(NumericStrings[v.str])
    ELSE NaN

ParseFloat(v) == ParseInt(v)

\* JavaScript truthiness: undefined, NaN, 0 and "" are falsy.
Truthy(v) ==
    \/ ("num" \in DOMAIN v /\ v.num # 0)
    \/ ("str" \in DOMAIN v /\ v.str # "")

\* v || d
OrElse(v, d) == IF Truthy(v) THEN v ELSE d

\* a + n, with NaN + n = NaN
Plus(a, n) == IF "num" \in DOMAIN a THEN Num(a.num + n) ELSE NaN

\* String.prototype.toLowerCase on the ticket names of the model.
ToLowerCase(s) ==
    CASE s = "VIP"      -> "vip"
      [] s = "Standard" -> "standard"
      [] OTHER          -> s

\* payload.Transport === 'Yes' || payload.Bus_Rental
TransportFlag(payload) ==
    \/ RawGet(payload, "Transport") = Str("Yes")
    \/ Truthy(RawGet(payload, "Bus_Rental"))

\* mark-visited.js: pointsEarned for a payload that parses and whose ticket
\* is absent or a string (the catch branch is not taken).
PointsEarned(payload) ==
    LET totalPrice == OrElse(ParseFloat(RawGet(payload, "totalPrice")), Num(0))
        numPeople  == OrElse(ParseInt(RawGet(payload, "numPeople")), Num(1))
        ticketType == OrElse(RawGet(payload, "ticket"), Str("Standard"))
        base == IF Truthy(RawGet(payload, "estimatedPoints"))
                    THEN ParseInt(RawGet(payload, "estimatedPoints"))
                ELSE IF totalPrice.num > 0
                    THEN Num(totalPrice.num \div 100)
                ELSE Num(BasePoints(ToLowerCase(ticketType.str), numPeople.num))
    IN  IF TransportFlag(payload) THEN Plus(base, 5) ELSE base

\* user-points-v2.js: calculatePoints(payload), on the same payloads.
CalculatePointsRaw(payload) ==
    LET ticketType == OrElse(RawGet(payload, "ticket"), Str("Standard"))
        numPeople  == OrElse(ParseInt(RawGet(payload, "numPeople")), Num(1))
        totalPrice == OrElse(ParseFloat(RawGet(payload, "totalPrice")), Num(0))
        points == IF totalPrice.num > 0
                  THEN Num(totalPrice.num \div 100)
                  ELSE Num(BasePoints(ToLowerCase(ticketType.str), numPeople.num))
    IN  IF TransportFlag(payload) THEN Plus(points, 5) ELSE points

\* The raw payloads the computation is applied to.
Field(name, v) == IF v = Undef THEN EmptyHash ELSE (name :> v)

RawPoints == {Undef, Num(0), Num(7), Num(-3), Str("abc"), Str("7")}
RawPrices == {Undef, Num(0), Num(2000), Num(250), Num(-500), Str("abc")}
RawPeople == {Undef, Num(0), Num(2), Num(-2), Str("abc")}
RawTickets == {Undef, Str("vip"), Str("VIP"), Str("family"), Str("group"),
               Str("Standard")}
RawTransport == {Undef, Str("Yes"), Str("No")}
RawBusRental == {Undef, Str("bus-1")}

RawPayload(estimatedPoints, totalPrice, numPeople, ticket, transport, bus) ==
    Field("estimatedPoints", estimatedPoints)
        @@ Field("totalPrice", totalPrice)
        @@ Field("numPeople", numPeople)
        @@ Field("ticket", ticket)
        @@ Field("Transport", transport)
        @@ Field("Bus_Rental", bus)

\* The store holds one booking, registered with some raw payload.
InitPoints ==
    /\ \E estimatedPoints \in RawPoints, totalPrice \in RawPrices,
          numPeople \in RawPeople, ticket \in RawTickets,
          transport \in RawTransport, bus \in RawBusRental :
            qr = [e \in Emails |->
                    RegisteredRecord(e, "osm001",
                        RawPayload(estimatedPoints, totalPrice, numPeople,
                                   ticket, transport, bus), 1)]
    /\ partnerSet = [q \in Partners |-> IF q = "osm001" THEN Emails ELSE {}]
    /\ partners = {"osm001"}
    /\ history = [e \in Emails |-> << >>]
    /\ redemption = EmptyHash
    /\ redemptions = [e \in Emails |-> << >>]
    /\ reward = EmptyHash
    /\ now = 1
    /\ pc = [p \in Procs |-> "idle"]
    /\ local = [p \in Procs |-> Idle]
    /\ result = Idle
    /\ webhooks = NoWebhooks
    /\ lock = {}

\* The computation applied to the stored booking's payload.
ComputePoints(email) ==
    /\ result = Idle
    /\ result' = [ op |-> "points", payload |-> qr[email].payload,
                   pointsEarned |-> PointsEarned(qr[email].payload),
                   calculated |-> CalculatePointsRaw(qr[email].payload) ]
    /\ UNCHANGED <<storeVars, now, pc, local>>
    /\ UNCHANGED <<webhooks, lock>>

NextPoints == \E email \in Emails : ComputePoints(email)

SpecPoints == InitPoints /\ [][NextPoints]_vars

----------------------------------------------------------------------------
(* POST /api/admin/update *)

\* Payloads an administrator writes; the partner is under the key `partner`.
AdminPayloads ==
    { [partner |-> "tx003", totalPrice |-> 2000], [ticket |-> "vip"] }

AdminUpdateBegin(p, email, payload) ==
    /\ pc[p] = "idle"
    /\ LET old == IF email \in DOMAIN qr THEN qr[email] ELSE EmptyHash
           oldPartner == Get(Get(old, "payload", EmptyHash), "partner", "")
       IN  local' = [local EXCEPT ![p] =
                [ op |-> "adminUpdate", email |-> email, payload |-> payload,
                  oldPartner |-> oldPartner,
                  fields |-> [ email |-> email,
                               used |-> Get(old, "used", "false"),
                               payload |-> payload,
                               createdAt |-> Get(old, "createdAt", now) ] ]]
    /\ pc' = [pc EXCEPT ![p] = "au_write"]
    /\ UNCHANGED <<storeVars, now, result>>
    /\ UNCHANGED <<webhooks, lock>>

AdminUpdateWrite(p) ==
    /\ pc[p] = "au_write"
    /\ qr' = HSet(qr, local[p].email, local[p].fields)
    /\ pc' = [pc EXCEPT ![p] = "au_index"]
    /\ UNCHANGED <<partnerSet, partners, history, redemption, redemptions, reward,
                   now, local, result>>
    /\ UNCHANGED <<webhooks, lock>>

\* The partner indices, then the response.
AdminUpdateIndex(p) ==
    /\ pc[p] = "au_index"
    /\ LET email == local[p].email
           newPartner == Get(local[p].payload, "partner", "")
           oldPartner == local[p].oldPartner
           added == IF newPartner # ""
                    THEN [partnerSet EXCEPT ![newPartner] = @ \cup {email}]
                    ELSE partnerSet
       IN  /\ partnerSet' =
                IF newPartner # "" /\ oldPartner # "" /\ oldPartner # newPartner
                THEN [added EXCEPT ![oldPartner] = @ \ {email}]
                ELSE added
           /\ partners' = IF newPartner # "" THEN partners \cup {newPartner}
                          ELSE partners
    /\ pc' = [pc EXCEPT ![p] = "idle"]
    /\ result' = [op |-> "adminUpdate", status |-> 200, error |-> ""]
    /\ local' = [local EXCEPT ![p] = Idle]
    /\ UNCHANGED <<qr, history, redemption, redemptions, reward, now>>
    /\ UNCHANGED <<webhooks, lock>>

\* The life of a visit record: bookings, confirmations and admin updates, one
\* call after the other.
NextRecord ==
    \/ \E p \in SeqProcs, email \in Emails, rest \in AccountBookings :
          RegisterBegin(p, email, rest, "")
    \/ \E p \in SeqProcs : RegisterAttach(p)
    \/ \E p \in SeqProcs : RegisterStore(p)
    \/ \E p \in SeqProcs, email \in Emails, partnerId \in Partners :
          MarkVisitedBegin(p, email, partnerId)
    \/ \E p \in SeqProcs : MarkVisitedWrite(p)
    \/ \E p \in SeqProcs : MarkVisitedHistory(p)
    \/ \E p \in SeqProcs, email \in Emails, partnerId \in Partners :
          PartnerVisitBegin(p, email, partnerId)
    \/ \E p \in SeqProcs : PartnerVisitWrite(p)
    \/ \E p \in SeqProcs, email \in Emails, payload \in AdminPayloads :
          AdminUpdateBegin(p, email, payload)
    \/ \E p \in SeqProcs : AdminUpdateWrite(p)
    \/ \E p \in SeqProcs : AdminUpdateIndex(p)

SpecRecord == InitAccount /\ [][NextRecord]_vars

\* Balance requests (slot h2) while redemptions run (slot h1): a request is
\* answered between any two store accesses of a running redemption.
NextBalanceShared ==
    \/ \E p \in SeqProcs, email \in Emails, rewardId \in Rewards :
          IssueBegin(p, email, rewardId)
    \/ \E p \in SeqProcs : IssueCheck(p)
    \/ \E p \in SeqProcs : IssueSave(p)
    \/ \E p \in SeqProcs : IssueHistory(p)
    \/ \E p \in SeqProcs : IssueStock(p)
    \/ \E p \in OtherProcs, email \in Emails : GetBalance(p, email)

SpecBalanceShared == InitIssue /\ [][NextBalanceShared]_vars

----------------------------------------------------------------------------
(* Notifications in flight.  The three webhook URLs are configured; a
   posted notification is delivered, fails, or stays in flight for ever. *)

WebhookTypes == {"visit_confirmed", "reward_redemption", "redemption_processed"}

Outcomes == {"delivered", "failed"}

\* The promise of a fetch settles: resolved, or rejected into console.error.
FetchSettle(type, outcome) ==
    /\ type \in webhooks.pending
    /\ webhooks' = [webhooks EXCEPT !.pending = @ \ {type},
                                    !.settled = @ \cup {<<type, outcome>>}]
    /\ UNCHANGED <<storeVars, now, pc, local, result, lock>>

\* A booking waiting for its visit, a visited account with points, a catalog.
InitNotify ==
    /\ qr = [e \in Emails |-> RegisteredRecord(e, "osm001", [totalPrice |-> 2000], 1)]
    /\ partnerSet = [q \in Partners |-> IF q = "osm001" THEN Emails ELSE {}]
    /\ partners = {"osm001"}
    /\ history = [e \in Emails |-> << >>]
    /\ redemption = EmptyHash
    /\ redemptions = [e \in Emails |-> << >>]
    /\ reward = Catalog
    /\ now = 1
    /\ pc = [p \in Procs |-> "idle"]
    /\ local = [p \in Procs |-> Idle]
    /\ result = Idle
    /\ webhooks = [configured |-> WebhookTypes, pending |-> {}, settled |-> {}]
    /\ lock = {}

\* The booking that carries a redemption code.
NotifyBooking == ("partner_id" :> "osm001") @@ [totalPrice |-> 2000]

NextNotify ==
    \/ \E p \in SeqProcs, email \in Emails, partnerId \in Partners :
          MarkVisitedBegin(p, email, partnerId)
    \/ \E p \in SeqProcs : MarkVisitedWrite(p)
    \/ \E p \in SeqProcs : MarkVisitedHistory(p)
    \/ \E p \in SeqProcs, email \in Emails, rewardId \in Rewards :
          IssueBegin(p, email, rewardId)
    \/ \E p \in SeqProcs : IssueCheck(p)
    \/ \E p \in SeqProcs : IssueSave(p)
    \/ \E p \in SeqProcs : IssueHistory(p)
    \/ \E p \in SeqProcs : IssueStock(p)
    \/ \E p \in SeqProcs, email \in Emails, code \in Codes :
          RegisterBegin(p, email, NotifyBooking, code)
    \/ \E p \in SeqProcs : RegisterApply(p)
    \/ \E p \in SeqProcs : RegisterAttach(p)
    \/ \E p \in SeqProcs : RegisterStore(p)
    \/ \E p \in SeqProcs, code \in Codes, action \in {"process", "reject"} :
          ProcessBegin(p, "osm001", code, action)
    \/ \E p \in SeqProcs : ProcessWrite(p)
    \/ \E type \in WebhookTypes, outcome \in Outcomes : FetchSettle(type, outcome)

SpecNotify == InitNotify /\ [][NextNotify]_vars

----------------------------------------------------------------------------
(* Registrations that carry a redemption code, interrupted at any await and
   sent again. *)

NextVoucherCrash ==
    \/ \E p \in SeqProcs, email \in Emails, rest \in VoucherBookings,
          code \in Codes \cup {""} : RegisterBegin(p, email, rest, code)
    \/ \E p \in SeqProcs : RegisterApply(p)
    \/ \E p \in SeqProcs : RegisterAttach(p)
    \/ \E p \in SeqProcs : RegisterStore(p)
    \/ \E p \in SeqProcs : Crash(p)
    \/ Tick

SpecVoucherCrash == InitVoucher /\ [][NextVoucherCrash]_vars

----------------------------------------------------------------------------
(* PUT /api/admin/rewards/:id (handleUpdateReward): the reward is read, the
   validated updates are laid over it, and the whole hash is written back. *)

\* updateRewardSchema: pointsCost is a number of at least 1.
RewardUpdates == { [pointsCost |-> 5], [pointsCost |-> 25] }

UpdateRewardBegin(p, rewardId, updates) ==
    /\ pc[p] = "idle"
    /\ IF rewardId \notin DOMAIN reward
       THEN /\ result' = [op |-> "updateReward", status |-> 404, error |-> "NotFound"]
            /\ UNCHANGED <<pc, local>>
       ELSE /\ pc' = [pc EXCEPT ![p] = "ur_write"]
            /\ local' = [local EXCEPT ![p] =
                    [ op |-> "updateReward", rewardId |-> rewardId,
                      updatedReward |-> updates @@ reward[rewardId] ]]
            /\ UNCHANGED result
    /\ UNCHANGED <<storeVars, now>>
    /\ UNCHANGED <<webhooks, lock>>

UpdateRewardWrite(p) ==
    /\ pc[p] = "ur_write"
    /\ reward' = HSet(reward, local[p].rewardId, local[p].updatedReward)
    /\ pc' = [pc EXCEPT ![p] = "idle"]
    /\ result' = [op |-> "updateReward", status |-> 200, error |-> ""]
    /\ local' = [local EXCEPT ![p] = Idle]
    /\ UNCHANGED <<qr, partnerSet, partners, history, redemption, redemptions, now>>
    /\ UNCHANGED <<webhooks, lock>>

\* Issue calls one after the other while an administrator reprices rewards.
NextReprice ==
    \/ \E p \in SeqProcs, email \in Emails, rewardId \in Rewards :
          IssueBegin(p, email, rewardId)
    \/ \E p \in SeqProcs : IssueCheck(p)
    \/ \E p \in SeqProcs : IssueSave(p)
    \/ \E p \in SeqProcs : IssueHistory(p)
    \/ \E p \in SeqProcs : IssueStock(p)
    \/ \E p \in OtherProcs, rewardId \in Rewards, updates \in RewardUpdates :
          UpdateRewardBegin(p, rewardId, updates)
    \/ \E p \in OtherProcs : UpdateRewardWrite(p)

SpecReprice == InitIssue /\ [][NextReprice]_vars

----------------------------------------------------------------------------
(* Bookings of little value: register.js stores any payload, and a
   totalPrice under 100 is worth Math.floor(totalPrice / 100) = 0 points. *)

SmallBookings ==
    { ("partner_id" :> "osm001") @@ [totalPrice |-> 50],
      ("partner_id" :> "tx003") @@ [totalPrice |-> 2000] }

NextSmall ==
    \/ \E p \in SeqProcs, email \in Emails, rest \in SmallBookings :
          RegisterBegin(p, email, rest, "")
    \/ \E p \in SeqProcs : RegisterAttach(p)
    \/ \E p \in SeqProcs : RegisterStore(p)
    \/ \E p \in SeqProcs, email \in Emails, partnerId \in Partners :
          MarkVisitedBegin(p, email, partnerId)
    \/ \E p \in SeqProcs : MarkVisitedWrite(p)
    \/ \E p \in SeqProcs : MarkVisitedHistory(p)
    \/ Tick

SpecSmall == InitAccount /\ [][NextSmall]_vars

----------------------------------------------------------------------------
(* GET /api/verify: the QR scan.  The record is read, then the lock key is
   set (nx, ex: 10), then `used` of the record read before the lock is
   tested, the record is written and the page rendered, and the lock key is
   deleted in the finally block. *)

VerifyBegin(p, email) ==
    /\ pc[p] = "idle"
    /\ IF email \notin DOMAIN qr
       THEN /\ result' = [op |-> "verify", status |-> 404, page |-> "Invalid", email |-> email]
            /\ UNCHANGED <<pc, local>>
       ELSE /\ pc' = [pc EXCEPT ![p] = "vf_lock"]
            /\ local' = [local EXCEPT ![p] =
                    [op |-> "verify", email |-> email, rec |-> qr[email]]]
            /\ UNCHANGED result
    /\ UNCHANGED <<storeVars, now, webhooks, lock>>

\* kv.set(lockKey, "1", { nx: true, ex: 10 })
VerifyLock(p) ==
    /\ pc[p] = "vf_lock"
    /\ IF local[p].email \in lock
       THEN /\ result' = [ op |-> "verify", status |-> 200, page |-> "AlreadyUsed",
                           email |-> local[p].email,
                           scannedAt |-> Get(local[p].rec, "scannedAt", 0) ]
            /\ pc' = [pc EXCEPT ![p] = "idle"]
            /\ local' = [local EXCEPT ![p] = Idle]
            /\ UNCHANGED lock
       ELSE /\ lock' = lock \cup {local[p].email}
            /\ pc' = [pc EXCEPT ![p] = "vf_write"]
            /\ UNCHANGED <<local, result>>
    /\ UNCHANGED <<storeVars, now, webhooks>>

\* The test of rec.used, kv.hset(key, { used, scannedAt }) and the page.
VerifyWrite(p) ==
    /\ pc[p] = "vf_write"
    /\ IF Get(local[p].rec, "used", "") = "true"
       THEN /\ result' = [ op |-> "verify", status |-> 200, page |-> "AlreadyUsed",
                           email |-> local[p].email,
                           scannedAt |-> Get(local[p].rec, "scannedAt", 0) ]
            /\ UNCHANGED qr
       ELSE /\ qr' = HSet(qr, local[p].email, [used |-> "true", scannedAt |-> now])
            /\ result' = [ op |-> "verify", status |-> 200, page |-> "Confirmed",
                           email |-> local[p].email, scannedAt |-> now ]
    /\ pc' = [pc EXCEPT ![p] = "vf_unlock"]
    /\ UNCHANGED <<partnerSet, partners, history, redemption, redemptions, reward,
                   now, local, webhooks, lock>>

\* finally { await kv.del(lockKey) }
VerifyUnlock(p) ==
    /\ pc[p] = "vf_unlock"
    /\ lock' = lock \ {local[p].email}
    /\ pc' = [pc EXCEPT ![p] = "idle"]
    /\ local' = [local EXCEPT ![p] = Idle]
    /\ UNCHANGED <<storeVars, now, result, webhooks>>

\* Concurrent and repeated scans of one registration.
NextScan ==
    \/ \E p \in Procs, email \in Emails : VerifyBegin(p, email)
    \/ \E p \in Procs : VerifyLock(p)
    \/ \E p \in Procs : VerifyWrite(p)
    \/ \E p \in Procs : VerifyUnlock(p)
    \/ Tick

SpecScan == InitVisit /\ [][NextScan]_vars

\* A booking, its scan at the door, and a redeem-reward call, with the
\* partner's confirmation.
ScanBookings == { ("partner_id" :> "osm001") @@ [totalPrice |-> 2000] }

NextScanIssue ==
    \/ \E p \in SeqProcs, email \in Emails, rest \in ScanBookings :
          RegisterBegin(p, email, rest, "")
    \/ \E p \in SeqProcs : RegisterAttach(p)
    \/ \E p \in SeqProcs : RegisterStore(p)
    \/ \E p \in SeqProcs, email \in Emails : VerifyBegin(p, email)
    \/ \E p \in SeqProcs : VerifyLock(p)
    \/ \E p \in SeqProcs : VerifyWrite(p)
    \/ \E p \in SeqProcs : VerifyUnlock(p)
    \/ \E p \in SeqProcs, email \in Emails, partnerId \in Partners :
          MarkVisitedBegin(p, email, partnerId)
    \/ \E p \in SeqProcs : MarkVisitedWrite(p)
    \/ \E p \in SeqProcs : MarkVisitedHistory(p)
    \/ \E p \in SeqProcs, email \in Emails, rewardId \in Rewards :
          IssueBegin(p, email, rewardId)
    \/ \E p \in SeqProcs : IssueCheck(p)
    \/ \E p \in SeqProcs : IssueSave(p)
    \/ \E p \in SeqProcs : IssueHistory(p)
    \/ \E p \in SeqProcs : IssueStock(p)

SpecScanIssue == InitAccount /\ [][NextScanIssue]_vars

----------------------------------------------------------------------------
(* A voucher's life under concurrency: register with a code and the
   partner's decision on both slots, redeem-reward on one of them, in any
   interleaving, up to the expiry and past it. *)

NextLifecycle ==
    \/ \E p \in SeqProcs, email \in Emails : IssueBegin(p, email, "r1")
    \/ \E p \in SeqProcs : IssueCheck(p)
    \/ \E p \in SeqProcs : IssueSave(p)
    \/ \E p \in SeqProcs : IssueHistory(p)
    \/ \E p \in SeqProcs : IssueStock(p)
    \/ \E p \in Procs, email \in Emails, code \in Codes :
          RegisterBegin(p, email, NotifyBooking, code)
    \/ \E p \in Procs : RegisterApply(p)
    \/ \E p \in Procs : RegisterAttach(p)
    \/ \E p \in Procs : RegisterStore(p)
    \/ \E p \in Procs, code \in Codes, action \in {"process", "reject"} :
          ProcessBegin(p, "osm001", code, action)
    \/ \E p \in Procs : ProcessWrite(p)
    \/ PassLifetime

\* The account has visited osm001 on a vip booking for two: 100 points.
InitLifecycle ==
    /\ InitIssue
    /\ partners = {"osm001"}
    /\ \A email \in Emails : Get(qr[email].payload, "ticket", "") = "vip"

SpecLifecycle == InitLifecycle /\ [][NextLifecycle]_vars

----------------------------------------------------------------------------
(* mark-visited.js: getUserTotalPoints(email), the totalPointsNow of the
   response.  The record's pointsAwarded is added once per partner whose set
   holds the account; then the points history is walked with
   JSON.parse(item), which throws on an item the store client has already
   turned into an object, and the entry is skipped. *)

GetUserTotalPoints(email) ==
    LET holding == { partnerId \in partners : email \in PartnerEmails(partnerId) }
        awarded == IF email \in DOMAIN qr /\ Get(qr[email], "visited", "") = "true"
                   THEN Get(qr[email], "pointsAwarded", 0) ELSE 0
        fromRecords == Cardinality(holding) * awarded
        fromHistory ==
            SumPoints(SelectSeq(history[email], LAMBDA h : h.type = "earned"))
              - SumPoints(RedemptionEntries(email))
    IN  { fromRecords + fromHistory, fromRecords }

----------------------------------------------------------------------------
(* Properties of redemption *)

\* The points the account's confirmed visit is worth.
EarnedTotal(email) == Get(qr[email], "pointsAwarded", 0)

\* C1: two concurrent redeem-reward calls for one account never redeem more
\* than the account earned: when the balance covers only one of them, only
\* one Redeemed entry is appended.
C1_NoDoubleSpend ==
    \A email \in Emails : TotalPointsRedeemed(email) <= EarnedTotal(email)

\* C2: when redeem-reward calls for an account run one after the other, the
\* step that appends the Redeemed entry is taken only with a balance read by
\* that call of at least pointsCost, and the earned total the call read minus
\* the redeemed total after the append is at least zero; the success response
\* reports remaining points that are not negative.
C2_NoOverdraft ==
    [][\A p \in SeqProcs :
          /\ (pc[p] = "is_history" /\ pc'[p] = "is_stock") =>
                /\ local[p].availablePoints >= local[p].pointsCost
                /\ local[p].availablePoints =
                       local[p].totalPointsEarned - TotalPointsRedeemed(local[p].email)
                /\ local[p].totalPointsEarned
                       - TotalPointsRedeemed(local[p].email)' >= 0
          /\ (pc[p] = "is_stock" /\ pc'[p] = "idle") =>
                /\ result'.status = 200
                /\ result'.remainingPoints >= 0
      ]_vars

C2_Witness ==
    /\ result.op = "issue"
    /\ result.status = 200
    /\ \E email \in Emails : Len(RedemptionEntries(email)) >= 1

----------------------------------------------------------------------------
(* Properties of visit confirmation *)

\* C3: after confirm calls that ran one after the other, a record that is
\* marked visited has exactly one Earned entry referencing it, and the
\* record's pointsAwarded and visitedAt are the values of that one credit.
C3_CreditedOnce ==
    \A email \in DOMAIN qr :
        ( /\ Get(qr[email], "visited", "") = "true"
          /\ \A p \in Procs : pc[p] = "idle" ) =>
            /\ Len(EarnedEntries(email)) = 1
            /\ Get(qr[email], "pointsAwarded", 0) = EarnedEntries(email)[1].points
            /\ qr[email].visitedAt = EarnedEntries(email)[1].timestamp

\* C4: whatever the interleaving of concurrent confirm calls, the ledger holds
\* at most one Earned entry referencing a visit record.
C4_AtMostOneEarned ==
    \A email \in Emails : Len(EarnedEntries(email)) <= 1

----------------------------------------------------------------------------
(* Properties of the voucher lifecycle *)

Terminal == {"used", "rejected", "expired"}

\* C5: once a voucher's stored status is used, rejected or expired, no step
\* of any apply or process call changes it.
C5_TerminalStays ==
    [][\A code \in DOMAIN redemption :
          redemption[code].status \in Terminal =>
              redemption'[code].status = redemption[code].status
      ]_vars

\* C6: a status write takes effect only when the stored status still equals
\* the status the writing call read (applied for the desk, pending for apply),
\* so of two racing transitions only one takes effect.
C6_CompareAndSet ==
    [][\A p \in Procs :
          /\ (pc[p] = "pr_write" /\ pc'[p] = "idle") =>
                redemption[local[p].code].status = local[p].status
          /\ (pc[p] = "reg_apply" /\ pc'[p] = "reg_attach") =>
                redemption[local[p].redemptionCode].status = "pending"
      ]_vars

\* C7: a register call that carries the code of a voucher already applied and
\* is not refused returns the existing application in its response.
C7_ApplyOnce ==
    [][\A p \in Procs :
          ( /\ pc[p] = "reg_store" /\ pc'[p] = "idle"
            /\ local[p].redemptionCode \in DOMAIN redemption
            /\ redemption[local[p].redemptionCode].status = "applied" ) =>
                result'.redemption = local[p].redemptionCode
      ]_vars

\* C8: no apply call and no process call made at a time past the voucher's
\* expiresAt writes the status applied or used.
C8_NoUseAfterExpiry ==
    [][\A p \in SeqProcs :
          /\ ( /\ pc[p] = "pr_write" /\ pc'[p] = "idle"
               /\ local[p].now > redemption[local[p].code].expiresAt ) =>
                    redemption'[local[p].code].status # "used"
          /\ ( /\ pc[p] = "reg_apply" /\ pc'[p] = "reg_attach"
               /\ local[p].createdAtIso
                      > redemption[local[p].redemptionCode].expiresAt ) =>
                    redemption'[local[p].redemptionCode].status # "applied"
      ]_vars

\* C9: when an apply call was refused because the voucher has expired, the
\* voucher's stored status is expired.
C9_ExpiredIsStored ==
    (result.op = "register" /\ result.error = "Expired") =>
        redemption[result.code].status = "expired"

\* C10: a process request with action process on a voucher whose stored
\* status is pending is answered InvalidState and changes nothing in the
\* store, and no process call starts writing unless the status is applied;
\* the write of action process stores status used with the processing partner
\* and the call's time, and answers 200.
C10_ProcessUse ==
    [][\A p \in Procs :
          /\ ( /\ pc' = pc /\ result' # result
               /\ result'.op = "process" /\ result'.action = "process"
               /\ result'.code \in DOMAIN redemption
               /\ redemption[result'.code].status = "pending" ) =>
                    /\ result'.error = "InvalidState"
                    /\ result'.currentStatus = "pending"
                    /\ UNCHANGED storeVars
          /\ (pc[p] = "idle" /\ pc'[p] = "pr_write") =>
                    redemption[local'[p].code].status = "applied"
          /\ ( /\ pc[p] = "pr_write" /\ pc'[p] = "idle"
               /\ local[p].action = "process" ) =>
                    /\ redemption'[local[p].code].status = "used"
                    /\ redemption'[local[p].code].processedBy = local[p].partnerId
                    /\ redemption'[local[p].code].processedAt = local[p].now
                    /\ result'.status = 200
                    /\ result'.newStatus = "used"
      ]_vars

C10_Witness ==
    /\ result.op = "process" /\ result.status = 200 /\ result.action = "process"
    /\ redemption[result.code].status = "used"
    /\ redemption[result.code].processedBy \in Partners

\* C11: a process request with action reject is accepted on a voucher whose
\* stored status is pending as it is on an applied one: it is never answered
\* with an error, and the write stores the status rejected.
C11_RejectFromPending ==
    [][\A p \in Procs :
          /\ ( /\ pc' = pc /\ result' # result
               /\ result'.op = "process" /\ result'.action = "reject"
               /\ result'.code \in DOMAIN redemption
               /\ redemption[result'.code].status \in {"pending", "applied"} ) =>
                    result'.status = 200
          /\ ( /\ pc[p] = "pr_write" /\ pc'[p] = "idle"
               /\ local[p].action = "reject" ) =>
                    redemption'[local[p].code].status = "rejected"
      ]_vars

\* C12: every balance response reports available = max(0, earned - redeemed)
\* of the totals it reports, and never a negative available balance.
C12_AvailableClamped ==
    result.op = "getBalance" =>
        /\ result.available = Max(0, result.earned - result.redeemed)
        /\ result.available >= 0

\* C13: the earned total redeem-reward computes is the pointsAwarded of the
\* account's visited record, counted once, whatever the partner sets hold and
\* in whatever order the partners are iterated: all orders give one total.
C13_EarnedIsRecordSum ==
    \A email \in Emails :
        /\ \A r1, r2 \in EarnedReads(email) :
              r1.totalPointsEarned = r2.totalPointsEarned
        /\ ( /\ email \in DOMAIN qr
             /\ qr[email].visited = "true"
             /\ "pointsAwarded" \in DOMAIN qr[email] ) =>
                \A read \in EarnedReads(email) :
                    read.totalPointsEarned = qr[email].pointsAwarded

\* C14: a booking record carries pointsAwarded exactly when its visited flag is
\* true, and a pointsAwarded value once stored is never changed or removed.
C14_AwardedIffVisited ==
    [][\A email \in Emails :
          email \in DOMAIN qr' =>
            /\ ("pointsAwarded" \in DOMAIN qr'[email]) <=>
                    (qr'[email].visited = "true")
            /\ (email \in DOMAIN qr /\ "pointsAwarded" \in DOMAIN qr[email]) =>
                    /\ "pointsAwarded" \in DOMAIN qr'[email]
                    /\ qr'[email].pointsAwarded = qr[email].pointsAwarded
      ]_vars

\* C15: when a confirmation died after the record update and before the
\* ledger append, the retried confirmation appends the missing Earned entry:
\* once a mark-visited call has been answered for a visited record and no
\* call is running, the ledger holds exactly one Earned entry for the record.
C15_RetryCompletesLedger ==
    \A email \in Emails :
        ( /\ result.op = "markVisited"
          /\ \A p \in Procs : pc[p] = "idle"
          /\ qr[email].visited = "true" ) =>
              Len(EarnedEntries(email)) = 1

\* C16: after any sequence of registrations, a visit confirmation by a partner
\* changes the store only when the account's record exists and belongs to
\* that partner; a refused confirmation leaves record and ledger unchanged.
C16_ConfirmOnlyOwnRecord ==
    [][\A p \in Procs :
          /\ ( /\ pc[p] \in {"mv_write", "pv_write"}
               /\ <<qr, history>>' # <<qr, history>> ) =>
                    /\ local[p].email \in DOMAIN qr
                    /\ Get(qr[local[p].email], "partnerId", "") = local[p].partnerId
          /\ ( /\ result' # result
               /\ result'.op \in {"markVisited", "partnerVisit"}
               /\ result'.error \in {"NotFound", "PartnerMismatch"} ) =>
                    <<qr, history>>' = <<qr, history>>
      ]_vars

\* The Redeemed entries of the ledger that reference voucher `code`.
RedeemedEntriesOf(email, code) ==
    SelectSeq(RedemptionEntries(email), LAMBDA h : h.redemptionCode = code)

\* C17: whenever no redeem-reward call is running, also after one died between
\* its writes, every stored voucher has exactly one Redeemed ledger entry, for
\* the voucher's snapshot cost, and every Redeemed entry references a stored
\* voucher.
C17_VoucherHasLedgerEntry ==
    (\A p \in Procs : pc[p] = "idle") =>
        /\ \A code \in DOMAIN redemption :
              LET entries == RedeemedEntriesOf(redemption[code].email, code) IN
              /\ Len(entries) = 1
              /\ entries[1].points = redemption[code].pointsSpent
        /\ \A email \in Emails :
              \A k \in DOMAIN RedemptionEntries(email) :
                  RedemptionEntries(email)[k].redemptionCode \in DOMAIN redemption

\* C18: a redeem-reward call for a reward restricted to partners goes on to
\* store a voucher only when the account has a record with visited = true at
\* one of these partners; a NotEligible answer stores no voucher and no entry.
C18_EligibleVisitRequired ==
    [][\A p \in Procs :
          /\ ( /\ pc[p] = "is_check" /\ pc'[p] = "is_save"
               /\ local[p].reward.availableFor # {} ) =>
                    /\ local[p].email \in DOMAIN qr
                    /\ qr[local[p].email].visited = "true"
                    /\ qr[local[p].email].partnerId \in local[p].reward.availableFor
          /\ ( /\ pc[p] = "is_check" /\ result' # result
               /\ result'.error = "NotEligible" ) =>
                    <<redemption, redemptions, history>>' =
                        <<redemption, redemptions, history>>
      ]_vars

\* The available balances redeem-reward would compute from the store.
StoreAvailable(email) ==
    { AvailablePoints(read.totalPointsEarned, TotalPointsRedeemed(email)) :
        read \in EarnedReads(email) }

\* C19: a successful redeem-reward call creates its voucher with status pending
\* and expiresAt = issue time + 30 days, reduces the available balance by
\* exactly pointsCost, and decrements a positive stock by exactly 1.
C19_IssueEffects ==
    [][\A p \in SeqProcs :
          /\ (pc[p] = "is_check" /\ pc'[p] = "is_save") =>
                /\ local'[p].redemption.redeemedAt = now
                /\ local'[p].redemption.pointsSpent = local[p].pointsCost
          /\ (pc[p] = "is_save" /\ pc'[p] = "is_history") =>
                LET code == local[p].redemptionCode IN
                /\ code \notin DOMAIN redemption
                /\ DOMAIN redemption' = DOMAIN redemption \cup {code}
                /\ redemption'[code].status = "pending"
                /\ redemption'[code].expiresAt =
                        redemption'[code].redeemedAt + VoucherLifetime
                /\ redemption'[code].pointsSpent = local[p].pointsCost
          /\ (pc[p] = "is_history" /\ pc'[p] = "is_stock") =>
                StoreAvailable(local[p].email)' =
                    { available - local[p].pointsCost :
                        available \in StoreAvailable(local[p].email) }
          /\ (pc[p] = "is_stock" /\ pc'[p] = "idle" /\ result' # result) =>
                LET rewardId == local[p].rewardId IN
                /\ reward'[rewardId].stock =
                        IF reward[rewardId].stock > 0
                        THEN reward[rewardId].stock - 1 ELSE reward[rewardId].stock
                /\ result'.status = 200
                /\ result'.remainingPoints \in StoreAvailable(local[p].email)
      ]_vars

\* The account with 20 points redeemed r1 for 15: 5 points remain, the voucher
\* is pending for 30 days, the stock went from 2 to 1.
C19_Witness ==
    /\ result.op = "issue" /\ result.status = 200
    /\ result.pointsSpent = 15 /\ result.remainingPoints = 5
    /\ StoreAvailable("a@x.com") = {5}
    /\ redemption[result.code].status = "pending"
    /\ redemption[result.code].expiresAt =
            redemption[result.code].redeemedAt + VoucherLifetime
    /\ redemption[result.code].redeemedAt > 1
    /\ reward["r1"].stock = 1

\* The account has one booking, registered at one partner and confirmed by
\* mark-visited, and has redeemed nothing.
SingleConfirmedVisit(email) ==
    /\ email \in DOMAIN qr
    /\ qr[email].visited = "true"
    /\ "pointsAwarded" \in DOMAIN qr[email]
    /\ partners = {qr[email].partnerId}
    /\ { q \in Partners : email \in partnerSet[q] } = {qr[email].partnerId}
    /\ Len(history[email]) = 1
    /\ history[email][1].type = "earned"
    /\ history[email][1].points = qr[email].pointsAwarded
    /\ redemptions[email] = << >>

\* C20: for every booking payload, after a single visit was registered and
\* confirmed and nothing redeemed, the balance request of user-points.js
\* (second handler) answers earned = P, redeemed = 0, available = P, where P
\* is the pointsAwarded the confirmation credited.
C20_BalanceIsCredited ==
    [][\A email \in Emails :
          ( /\ SingleConfirmedVisit(email)
            /\ \A p \in Procs : pc[p] = "idle"
            /\ pc' = pc /\ result' # result
            /\ result'.op = "getBalance" /\ result'.handler = "user-points/2" ) =>
                /\ result'.earned = qr[email].pointsAwarded
                /\ result'.redeemed = 0
                /\ result'.available = qr[email].pointsAwarded
      ]_vars

\* The points policy as the specification words it, on payloads whose numeric
\* fields, where present, are positive numbers.
WellFormed(payload) ==
    \A f \in {"estimatedPoints", "totalPrice", "numPeople"} :
        f \in DOMAIN payload => ("num" \in DOMAIN payload[f] /\ payload[f].num > 0)

PolicyTable(ticket) ==
    CASE ticket \in {"vip", "VIP"} -> 50
      [] ticket = "family"         -> 30
      [] ticket = "group"          -> 20
      [] OTHER                     -> 10

PolicyPoints(payload) ==
    LET partySize == IF "numPeople" \in DOMAIN payload
                     THEN payload.numPeople.num ELSE 1
        ticket == IF "ticket" \in DOMAIN payload THEN payload.ticket.str ELSE ""
        branch == IF "estimatedPoints" \in DOMAIN payload
                      THEN payload.estimatedPoints.num
                  ELSE IF "totalPrice" \in DOMAIN payload
                      THEN payload.totalPrice.num \div 100
                  ELSE PolicyTable(ticket) * partySize
        flag == \/ ("Transport" \in DOMAIN payload /\ payload.Transport.str = "Yes")
                \/ "Bus_Rental" \in DOMAIN payload
    IN  branch + (IF flag THEN 5 ELSE 0)

\* The payload as the handler steps of the model carry it: plain values, the
\* ticket in lower case, the bus flag as a boolean.
Plain(payload) ==
    [ f \in DOMAIN payload \ {"partner_id"} |->
        IF f = "Bus_Rental" THEN TRUE
        ELSE IF f = "ticket" THEN ToLowerCase(payload[f].str)
        ELSE IF "num" \in DOMAIN payload[f] THEN payload[f].num
        ELSE payload[f].str ]

C22_PointsNonNegative ==
    result.op = "points" =>
        LET payload == result.payload
            numPeople == ParseInt(RawGet(payload, "numPeople"))
            noPartySize == "num" \notin DOMAIN numPeople \/ numPeople.num <= 0
            tableFired == /\ ~Truthy(RawGet(payload, "estimatedPoints"))
                          /\ ~Truthy(ParseFloat(RawGet(payload, "totalPrice")))
            ticket == IF "ticket" \in DOMAIN payload THEN payload.ticket.str ELSE ""
        IN  /\ "num" \in DOMAIN result.pointsEarned
            /\ result.pointsEarned.num >= 0
            /\ "num" \in DOMAIN result.calculated
            /\ result.calculated.num >= 0
            /\ (noPartySize /\ tableFired /\ ~TransportFlag(payload)) =>
                    result.pointsEarned = Num(PolicyTable(ticket))

\* What the claims compare of a visit record.
VisitFields(record) ==
    [ f \in DOMAIN record \cap
            {"partnerId", "payload", "visited", "visitedAt", "pointsAwarded"} |->
        record[f] ]

\* C23: a registration of the account at partner p2 leaves the account's visit
\* record at another partner p1 in the store, unchanged in its partner, its
\* payload, its visited flag, visitedAt and pointsAwarded.
C23_OtherPartnerRecordKept ==
    [][\A p \in Procs :
          ( /\ pc[p] = "reg_store" /\ pc'[p] = "idle"
            /\ local[p].email \in DOMAIN qr
            /\ Get(qr[local[p].email], "partnerId", "") # ""
            /\ Get(qr[local[p].email], "partnerId", "") #
                    Get(local[p].record, "partnerId", "") ) =>
                VisitFields(qr'[local[p].email]) = VisitFields(qr[local[p].email])
      ]_vars

\* C24: once a visit record's visited flag is true, no later registration,
\* confirmation or admin update sets it back to unvisited or deletes the
\* record.
C24_VisitedStays ==
    [][\A email \in Emails :
          (email \in DOMAIN qr /\ Get(qr[email], "visited", "") = "true") =>
              (email \in DOMAIN qr' /\ Get(qr'[email], "visited", "") = "true")
      ]_vars

\* The list `new` is the list `old` with entries pushed at its head.
PushedOnto(old, new) ==
    /\ Len(new) >= Len(old)
    /\ SubSeq(new, Len(new) - Len(old) + 1, Len(new)) = old

\* C25: the ledger is append-only: across every step of every operation the
\* entries an account's points history holds stay present, unchanged and in
\* the same order; a step only adds entries.
C25_LedgerAppendOnly ==
    [][\A email \in Emails : PushedOnto(history[email], history'[email])]_vars

\* Both writers have appended: a confirmation after a redemption after a
\* confirmation.
C25_Witness ==
    \E email \in Emails :
        /\ Len(history[email]) = 3
        /\ history[email][1].type = "earned"
        /\ history[email][2].type = "redemption"
        /\ history[email][3].type = "earned"

\* C26: a balance request is read-only: the step that answers it leaves every
\* key of the store as it was, also while another operation is running.
C26_BalanceReadOnly ==
    [][(result' # result /\ result'.op = "getBalance") => UNCHANGED storeVars]_vars

\* A balance request was answered between a redemption's voucher write and
\* its ledger append: it saw the voucher's cost in the redemptions list.
C26_Witness ==
    /\ pc["h1"] = "is_history"
    /\ result.op = "getBalance" /\ result.handler = "user-points/2"
    /\ result.redeemed = local["h1"].pointsCost
    /\ RedemptionEntries("a@x.com") = << >>

\* C27: a webhook notification is fire-and-forget: the step that posts it is
\* the step that sends the operation's successful response, with the
\* notification still in flight, and the step in which a notification is
\* delivered or fails changes neither the store nor the response nor any
\* handler.
Posted == webhooks'.pending \ webhooks.pending

C27_WebhooksFireAndForget ==
    [][ /\ (webhooks'.settled # webhooks.settled) =>
               UNCHANGED <<storeVars, now, pc, local, result>>
        /\ (Posted # {}) =>
               /\ result'.status = 200
               /\ \E p \in Procs : pc[p] # "idle" /\ pc'[p] = "idle"
               /\ "visit_confirmed" \in Posted => result'.op = "markVisited"
               /\ "reward_redemption" \in Posted => result'.op = "issue"
               /\ "redemption_processed" \in Posted => result'.op = "process"
      ]_vars

\* A visit was confirmed and answered, its notification failed, and the
\* notification of an issued voucher is still in flight.
C27_Witness ==
    /\ <<"visit_confirmed", "failed">> \in webhooks.settled
    /\ "reward_redemption" \in webhooks.pending
    /\ result.op = "issue" /\ result.status = 200
    /\ \E email \in Emails : Get(qr[email], "visited", "") = "true"

\* The balance the points history gives: earned entries less redemptions.
HistoryBalance(email) ==
    Max(0, SumPoints(SelectSeq(history[email], LAMBDA h : h.type = "earned"))
           - SumPoints(SelectSeq(history[email], LAMBDA h : h.type = "redemption")))

\* C28: a redeem-reward call refused for insufficient points reports
\* required = the reward's pointsCost and available = the account's available
\* balance at that moment, and the call has written nothing: no voucher, no
\* history entry, no stock change.
C28_InsufficientReported ==
    [][\A p \in SeqProcs :
          /\ (pc[p] = "idle" /\ pc'[p] = "is_check") => UNCHANGED storeVars
          /\ (pc[p] = "is_check" /\ pc'[p] = "idle"
                /\ result'.error = "InsufficientPoints") =>
                /\ result'.op = "issue" /\ result'.status = 400
                /\ result'.required = reward[local[p].rewardId].pointsCost
                /\ result'.available = HistoryBalance(local[p].email)
                /\ result'.available < result'.required
                /\ UNCHANGED storeVars
      ]_vars

\* A voucher was issued, and a further request was refused with part of the
\* balance left.
C28_Witness ==
    /\ result.op = "issue" /\ result.error = "InsufficientPoints"
    /\ result.available > 0 /\ result.available < result.required
    /\ redemption # EmptyHash
    /\ \A p \in Procs : pc[p] = "idle"

\* C29: a registration that carries the code of a voucher whose stored status
\* is used or rejected is refused with AlreadyUsed, before or after the
\* voucher's expiry (another account's code: DifferentUser), and goes no
\* further: it writes neither the voucher nor the booking.
C29_UsedOrRejectedRefused ==
    [][\A p \in SeqProcs :
          /\ ( /\ pc[p] = "idle" /\ pc'[p] \in {"reg_apply", "reg_attach"}
               /\ local'[p].redemptionCode \in DOMAIN redemption ) =>
                    redemption[local'[p].redemptionCode].status
                        \notin {"used", "rejected"}
          /\ ( /\ pc' = pc /\ result' # result /\ result'.op = "register"
               /\ result'.code \in DOMAIN redemption
               /\ redemption[result'.code].status \in {"used", "rejected"} ) =>
                    /\ result'.error \in {"AlreadyUsed", "DifferentUser"}
                    /\ UNCHANGED storeVars
      ]_vars

\* C30: a registration sent again after the first attempt stopped between
\* the voucher's update and the booking's write completes the attachment: a
\* registration that stores its booking while the voucher of its code is
\* applied to that booking, and the stored booking does not carry the code
\* yet, stores a booking that carries the code, and the voucher stays applied
\* to it.
C30_ApplyRetryCompletes ==
    [][\A p \in SeqProcs :
          ( /\ pc[p] = "reg_store" /\ pc'[p] = "idle"
            /\ local[p].redemptionCode \in DOMAIN redemption
            /\ redemption[local[p].redemptionCode].status = "applied"
            /\ redemption[local[p].redemptionCode].appliedToBooking
                  = QrKey(local[p].email)
            /\ Get(qr[local[p].email], "redemptionCode", "")
                  # local[p].redemptionCode ) =>
                /\ Get(qr'[local[p].email], "redemptionCode", "")
                      = local[p].redemptionCode
                /\ redemption'[local[p].redemptionCode].status = "applied"
                /\ result'.redemption = local[p].redemptionCode
      ]_vars

\* C31: the cost of a voucher is the reward's cost at issuance: once stored,
\* a voucher's pointsSpent and the points of its redemption entry never
\* change, and a write of the reward by the administrator changes no
\* voucher, no history entry and no account's redeemed total.
C31_CostSnapshot ==
    [][ /\ \A code \in DOMAIN redemption :
              redemption'[code].pointsSpent = redemption[code].pointsSpent
        /\ \A email \in Emails :
              \A i \in 1..Len(RedemptionEntries(email)) :
                 \E j \in 1..Len(RedemptionEntries(email)') :
                    RedemptionEntries(email)'[j] = RedemptionEntries(email)[i]
        /\ (\E p \in Procs : pc[p] = "ur_write" /\ pc'[p] = "idle") =>
              /\ UNCHANGED <<redemption, redemptions, history>>
              /\ \A email \in Emails :
                    TotalPointsRedeemed(email)' = TotalPointsRedeemed(email)
      ]_vars

\* A voucher issued at 15 points, its reward now costing 25.
C31_Witness ==
    \E code \in DOMAIN redemption :
        /\ redemption[code].pointsSpent = 15
        /\ reward[redemption[code].rewardId].pointsCost = 25
        /\ TotalPointsRedeemed(redemption[code].email) = 15
        /\ result.op = "updateReward" /\ result.status = 200

\* C32: every entry of every account's points history, earned or redemption,
\* has points > 0.
C32_EntryPointsPositive ==
    \A email \in Emails :
        \A i \in 1..Len(history[email]) : history[email][i].points > 0

\* C33: a record counts in the earned total of a redeem-reward call only when
\* a partner has confirmed its visit: whenever the call has read an earned
\* total above zero, the account's record is marked visited.
C33_CountedOnlyIfConfirmed ==
    [][\A p \in SeqProcs :
          ( /\ pc[p] = "idle" /\ pc'[p] = "is_check"
            /\ local'[p].totalPointsEarned > 0 ) =>
                Get(qr[local'[p].email], "visited", "") = "true"
      ]_vars

\* C34: whenever no request is running, the available points redeem-reward
\* would check a reward's cost against are the availablePoints the
\* comprehensive user-points handler would report, for every account.
C34_BalancesAligned ==
    (\A p \in Procs : pc[p] = "idle") =>
        \A email \in Emails :
            StoreAvailable(email)
                = { response.available : response \in UserPointsSecond(email) }

\* C35: a registration is checked in once: among concurrent or repeated
\* scans of one unused registration, a scan that renders "Check-in
\* confirmed" finds the stored record unused, and every scan of a record
\* stored as used renders "Already checked in" and leaves the record as it
\* is.
C35_SingleCheckIn ==
    [][\A p \in Procs :
          (pc[p] = "vf_write" /\ pc'[p] = "vf_unlock") =>
              IF Get(qr[local[p].email], "used", "") = "true"
              THEN result'.page = "AlreadyUsed" /\ qr' = qr
              ELSE /\ result'.page = "Confirmed"
                   /\ qr'[local[p].email].used = "true"
                   /\ qr'[local[p].email].scannedAt = now
      ]_vars

\* C36: a voucher is only applied to a booking of the account it was issued
\* to: a registration that carries a code goes on only when the code is a
\* stored voucher of the registering account; with another account's code
\* or an unknown code it is refused and nothing is written, and every
\* applied voucher is applied to its own account's booking.
C36_OwnVoucherOnly ==
    [][ /\ \A p \in Procs :
              ( /\ pc[p] = "idle" /\ pc'[p] \in {"reg_apply", "reg_attach"}
                /\ local'[p].redemptionCode # "" ) =>
                    /\ local'[p].redemptionCode \in DOMAIN redemption
                    /\ redemption[local'[p].redemptionCode].email = local'[p].email
        /\ ( /\ pc' = pc /\ result' # result /\ result'.op = "register"
             /\ result'.error \in {"DifferentUser", "InvalidCode"} ) =>
                    UNCHANGED storeVars
        /\ \A code \in DOMAIN redemption' :
              redemption'[code].status = "applied" =>
                  redemption'[code].appliedToBooking = QrKey(redemption'[code].email)
      ]_vars

\* Account b was refused with a's code: the voucher is still pending and b
\* has no booking and no partner.
C36_Witness ==
    /\ result.op = "register" /\ result.error = "DifferentUser"
    /\ result.code \in DOMAIN redemption
    /\ redemption[result.code].status = "pending"
    /\ \A guest \in Guests :
          guest \notin DOMAIN qr /\ \A q \in Partners : guest \notin partnerSet[q]

\* C37: a process call of partner q changes a voucher only when the voucher
\* records no partner or records q: the write of a process call never
\* touches a voucher whose recorded partnerId is another partner.
C37_OwnPartnerProcesses ==
    [][\A p \in Procs :
          (pc[p] = "pr_write" /\ pc'[p] = "idle") =>
              Get(redemption[local[p].code], "partnerId", "")
                  \in {"", local[p].partnerId}
      ]_vars

\* C38: the stored status of every voucher is one of pending, applied, used,
\* rejected and expired, under every interleaving of redeem-reward, register
\* and process calls; "approved" is never stored.
VoucherStatuses == {"pending", "applied", "used", "rejected", "expired"}

C39_TotalPointsNow ==
    [][\A p \in SeqProcs, email \in Emails :
          (pc[p] = "mv_history" /\ pc'[p] = "idle" /\ local[p].email = email) =>
              \A total \in GetUserTotalPoints(email)' :
                  total = ( SumPoints(SelectSeq(history[email],
                                                LAMBDA h : h.type = "earned"))
                            - SumPoints(RedemptionEntries(email)) )'
      ]_vars

====
